---- MODULE Spec2Model ----
(***************************************************************************)
(* The manager's service registry and command forwarder                    *)
(* (src/web/routers/manager.py).                                           *)
(*                                                                         *)
(* Each handler is one step.  register_service, unregister_service,        *)
(* heartbeat and list_services have no await between reading and writing   *)
(* the registry; the four forwarding handlers read the registry before     *)
(* their only await (the request to the worker) and never write it, so the *)
(* step draws what the request ends in from Outcomes.                      *)
(*                                                                         *)
(* A URL is a sequence of tokens; the token "/" is a slash, every other    *)
(* token is an opaque piece of text.  <<>> is the empty string (and also   *)
(* stands for an absent / None serviceUrl: both are falsy in the code).    *)
(* A metadata dict is a set of <<key, value>> pairs; {} is the empty dict. *)
(* The registry is a function whose DOMAIN is the set of keys of the dict. *)
(*                                                                         *)
(* The worker's lifecycle (src/agents/mcp_service.py) and the dashboard's  *)
(* agent state store (src/web/routers/agents.py) follow, each with the     *)
(* variables of its own process and its own specification.                 *)
(***************************************************************************)
EXTENDS Integers, Sequences, FiniteSets, TLC

VARIABLES
    REGISTERED_SERVICES, \* agent_id -> [serviceUrl, metadata, registered_at]
    now,                 \* the value time.time() returns
    req,                 \* the request (or event) handled by the last step
    resp,                \* the manager's answer to that request
    sent,                \* the HTTP requests that handler sent to a worker, with their outcomes
    lastWrite,           \* history: per id, the serviceUrl last supplied and not removed
    _lifecycle,          \* worker: app.state._lifecycle, [status, current_task]
    _shutdown_requested, \* worker: app.state._shutdown_requested
    process,             \* worker: "running", or how the process ended
    in_flight,           \* worker: execute handlers waiting for agent_instance.execute
    drains,              \* worker: the drain threads started, with the time each has waited
    returning,           \* worker: the answer of the stop/restart handler that has not returned yet
    wreq,                \* worker: the request (or event) handled by the last step
    wresp,               \* worker: the answer that step gave
    cycle,               \* history: where the worker is in pause -> resume, "stopping" after a stop/restart
    _agents,             \* dashboard: AgentStore._agents, agent_id -> AgentState
    clock,               \* dashboard: the value datetime.utcnow() returns
    sreq,                \* dashboard: the call handled by the last step
    sresp,               \* dashboard: what that call returned or raised
    prePause,            \* history: per id, the record before a pause that nothing but resume followed
    active_connections,  \* dashboard: ConnectionManager.active_connections
    socket,              \* dashboard: per WebSocket, where its endpoint is and what its client does
    wire,                \* dashboard: per WebSocket, the messages sent on it, in order
    messages,            \* dashboard: the messages handed to broadcast so far
    btasks,              \* dashboard: the broadcast tasks created and not yet run (indices of messages)
    stasks,              \* dashboard: the _send_to_client tasks created and not yet finished
    ready,               \* dashboard: the created tasks that have not run yet, in the event loop's order
    wsev,                \* dashboard: the WebSocket event handled by the last step
    cleaner,             \* manager: the registry cleaner task
    lifespan_at,         \* manager: where the application's lifespan is
    _heartbeat_task,     \* worker: app.state._heartbeat_task
    worker_lifespan,     \* worker: where _lifespan is
    posted,              \* worker: the requests _lifespan and the heartbeat loop posted to the manager
    alerts,              \* monitoring: MonitoringService.alerts
    wall,                \* monitoring: the clock of the monitoring process, in ticks
    mreq,                \* monitoring: the call handled by the last step and what it returned
    execution,           \* coordinator: the WorkflowExecution of the last call of execute_workflow
    workflow,            \* coordinator: where that call is, and the agent calls it has made
    execution_history,   \* coordinator: AgentCoordinator.execution_history
    handlers,            \* dashboard: per handler, the call it runs and what get_agent gave it
    tally,               \* history: the dashboard calls started, and the counter calls that have written
    coroutines,          \* manager: per task of the event loop, the coroutine it runs and its next operation
    _lock                \* manager: per asyncio.Lock, the task that holds it (0: free)

managerVars == <<REGISTERED_SERVICES, now, req, resp, sent, lastWrite>>

workerVars ==
    <<_lifecycle, _shutdown_requested, process, in_flight, drains, returning,
      wreq, wresp, cycle>>

storeVars == <<_agents, clock, sreq, sresp, prePause>>

wsVars == <<active_connections, socket, wire, messages, btasks, stasks, ready, wsev>>

cleanerVars == <<cleaner, lifespan_at>>

lifeVars == <<_heartbeat_task, worker_lifespan, posted>>

monitorVars == <<alerts, wall, mreq>>

\* the components added to the five above
coordVars == <<execution, workflow, execution_history>>

raceVars == <<handlers, tally>>

lockVars == <<coroutines, _lock>>

otherVars == <<lifeVars, monitorVars, coordVars, raceVars, lockVars>>

vars == <<managerVars, workerVars, storeVars, wsVars, cleanerVars, otherVars>>

---------------------------------------------------------------------------
(* Bounds of the model *)

MaxTime == 3
MaxTtl == 2
\* execute requests a worker runs at the same time
MaxInFlight == 2
\* the worker's drain_timeout, in ticks of the worker's clock
DrainTimeout == 1
\* stop/restart actions a worker is sent
MaxDrains == 2
\* ticks of the dashboard's clock
MaxClock == 1
\* tasks added to one agent of the dashboard
MaxTasks == 1
\* messages handed to broadcast while clients are connected
MaxMessages == 1
\* messages sent on one WebSocket
MaxWire == 2
\* actions that succeed while the order of their messages is followed
MaxUpdates == 2
\* sleeps of the registry cleaner for which time is followed
MaxSleeps == 7
\* heartbeats one worker posts
MaxBeats == 3
\* the alerts created
MaxAlerts == 3
\* the ticks of the monitoring process's clock
MaxWall == 3
\* the largest retry_count of a custom step
MaxRetry == 2
\* the calls of execute_workflow
MaxRuns == 1
\* the handlers of the dashboard that run at the same time
MaxHandlers == 2
\* the calls those handlers serve
MaxCalls == 3
\* the tasks of the manager's event loop
MaxCoroutines == 2

\* start_registry_cleaner(interval: int = 10, ttl: int = 30)
CleanerInterval == 10
CleanerTtl == 30

(* Program constants *)

BasePort == 8100

---------------------------------------------------------------------------
(* Inputs *)

\* config/agents.config.json as load_config returns it: the "agents" list.
\* port 0 stands for an agent without a "port" key (a.get("port") is falsy).
agents ==
    << [id |-> "planner", port |-> 9001],
       [id |-> "executor", port |-> 0] >>

\* ids a request can carry: two configured agents and one that is not in the config
AgentIds == {"planner", "executor", "ghost"}
\* the ids that register while time passes: a configured one and one that is
\* not in the config
RegistryIds == {"planner", "ghost"}
\* "" is a body without an id
NoId == {""}

U1 == <<"http://10.0.0.1:8100">>
U2 == <<"http://10.0.0.2:8100", "/">>
\* <<>> is a body without serviceUrl
RequestUrls == {<<>>, U1, U2}

M1 == {<<"defaultModel", "llama3.2:latest">>}
\* {} is a body without metadata (body.get("metadata", {}))
RequestMetadata == {{}, M1}

---------------------------------------------------------------------------
(* Pure helpers *)

\* str.rstrip("/")
RECURSIVE rstrip(_)
rstrip(s) ==
    IF s = <<>> THEN s
    ELSE IF s[Len(s)] = "/" THEN rstrip(SubSeq(s, 1, Len(s) - 1))
    ELSE s

\* f"http://{host}:{base_port + index}", index counted from 0
_agent_service_url(index) == <<"http://127.0.0.1:", ToString(BasePort + index)>>

\* f"http://127.0.0.1:{cfg_port}"
CfgPortUrl(cfg_port) == <<"http://127.0.0.1:", ToString(cfg_port)>>

\* next((i for i, a in enumerate(agents) if a.get("id") == agent_id), None);
\* 0-based like the code, -1 for None
ConfigIndex(agent_id) ==
    IF \E i \in 1..Len(agents) : agents[i].id = agent_id
    THEN (CHOOSE i \in 1..Len(agents) :
              /\ agents[i].id = agent_id
              /\ \A j \in 1..(i - 1) : agents[j].id # agent_id) - 1
    ELSE -1

\* dict.pop(key, None)
Pop(d, key) == [k \in DOMAIN d \ {key} |-> d[k]]

\* d[key] = value
Put(d, key, value) == [k \in DOMAIN d \cup {key} |-> IF k = key THEN value ELSE d[k]]

---------------------------------------------------------------------------
(* The service registry *)

Request(op, agent_id, service_url, metadata, ttl) ==
    [op |-> op, id |-> agent_id, serviceUrl |-> service_url,
     metadata |-> metadata, ttl |-> ttl]

Json(status, val) == [status |-> status, kind |-> "json", val |-> val]

\* raise HTTPException(status_code=status, detail=detail)
HTTPException(status, detail) == [status |-> status, kind |-> "detail", val |-> detail]

\* not an HTTP request: nothing is answered (_purge_stale leaves its local
\* list `stale` in val, with kind "stale")
NoResponse == [status |-> 0, kind |-> "none", val |-> {}]

\* Python's None
None == "None"

\* the worker's state when create_app returns and the server starts
WorkerInit ==
    /\ _lifecycle = [status |-> "running", current_task |-> None]
    /\ _shutdown_requested = FALSE
    /\ process = "running"
    /\ in_flight = 0
    /\ drains = <<>>
    /\ returning = None
    /\ wreq = [op |-> "start", arg |-> None]
    /\ wresp = NoResponse
    /\ cycle = "none"

\* AgentStore() at import: no record
StoreInit ==
    /\ _agents = [aid \in {} |-> {}]
    /\ clock = 0
    /\ sreq = [op |-> "start", id |-> "", arg |-> None]
    /\ sresp = [kind |-> "none", val |-> ""]
    /\ prePause = [aid \in {} |-> {}]

\* the WebSocket objects of the clients that connect
Clients == {"ws1", "ws2"}

\* ConnectionManager() at import, no client yet
WsInit ==
    /\ active_connections = <<>>
    /\ socket = [c \in Clients |-> "none"]
    /\ wire = [c \in Clients |-> <<>>]
    /\ messages = <<>>
    /\ btasks = {}
    /\ stasks = {}
    /\ ready = <<>>
    /\ wsev = [op |-> "start", ws |-> "", arg |-> None]

\* the application before its lifespan is entered
CleanerInit ==
    /\ cleaner = [state |-> "none", wake |-> 0]
    /\ lifespan_at = "created"

\* create_app: no heartbeat task, _lifespan not entered
LifeInit ==
    /\ _heartbeat_task = None
    /\ worker_lifespan = [at |-> "created", mgr |-> None, raised |-> None]
    /\ posted = <<>>

\* MonitoringService.__init__: no alert
MonitorInit ==
    /\ alerts = <<>>
    /\ wall = 0
    /\ mreq = [op |-> "__init__", alert_id |-> <<>>, result |-> 0]

\* AgentCoordinator.__init__: an empty history, no workflow run yet
CoordInit ==
    /\ execution = [workflow_id |-> 0, state |-> "pending", results |-> <<>>, errors |-> <<>>]
    /\ workflow = [at |-> "idle", steps |-> <<>>, k |-> 0, attempt |-> 0,
                   completed_steps |-> {}, calls |-> <<>>, runs |-> 0]
    /\ execution_history = <<>>

\* no handler of the dashboard has started
RaceInit ==
    /\ handlers = [h \in 1..MaxHandlers |-> [at |-> "idle", call |-> "", kwargs |-> <<>>]]
    /\ tally = [started |-> 0, added |-> 0, completed |-> 0]

\* AgentStore.__init__ and ConnectionManager.__init__: both locks free; no
\* task runs
LockInit ==
    /\ coroutines = [t \in 1..MaxCoroutines |-> [runs |-> "", pc |-> 0]]
    /\ _lock = [store |-> 0, cm |-> 0]

Init ==
    /\ REGISTERED_SERVICES = [rid \in {} |-> {}]
    /\ now = 0
    /\ req = Request("start", "", <<>>, {}, 0)
    /\ resp = NoResponse
    /\ sent = <<>>
    /\ lastWrite = [i \in AgentIds |-> <<>>]
    /\ WorkerInit
    /\ StoreInit
    /\ WsInit
    /\ CleanerInit
    /\ LifeInit
    /\ MonitorInit
    /\ CoordInit
    /\ RaceInit
    /\ LockInit

\* the dict entry register_service stores
RegisterEntry(service_url, metadata, t) ==
    [serviceUrl |-> service_url, metadata |-> metadata, registered_at |-> t]

\* POST /api/agent-services/register
register_service(agent_id, service_url, metadata) ==
    /\ req' = Request("register", agent_id, service_url, metadata, 0)
    /\ sent' = <<>>
    /\ UNCHANGED now
    /\ IF agent_id = "" \/ service_url = <<>>
       THEN /\ resp' = HTTPException(400, "Missing id or serviceUrl")
            /\ UNCHANGED <<REGISTERED_SERVICES, lastWrite>>
       ELSE /\ REGISTERED_SERVICES' =
                   Put(REGISTERED_SERVICES, agent_id,
                       RegisterEntry(service_url, metadata, now))
            /\ resp' = Json(200, <<"registered", agent_id>>)
            /\ lastWrite' = [lastWrite EXCEPT ![agent_id] = service_url]

\* unregister_service with `del REGISTERED_SERVICES[agent_id]`: a KeyError
\* (500) when the id has no entry
unregister_service_del(agent_id) ==
    /\ req' = Request("unregister", agent_id, <<>>, {}, 0)
    /\ sent' = <<>>
    /\ UNCHANGED now
    /\ IF agent_id = ""
       THEN /\ resp' = HTTPException(400, "Missing id")
            /\ UNCHANGED <<REGISTERED_SERVICES, lastWrite>>
       ELSE IF agent_id \notin DOMAIN REGISTERED_SERVICES
       THEN /\ resp' = HTTPException(500, "Internal Server Error")
            /\ UNCHANGED <<REGISTERED_SERVICES, lastWrite>>
       ELSE /\ REGISTERED_SERVICES' = Pop(REGISTERED_SERVICES, agent_id)
            /\ resp' = Json(200, <<"unregistered", agent_id>>)
            /\ lastWrite' = [lastWrite EXCEPT ![agent_id] = <<>>]

\* POST /api/agent-services/unregister
unregister_service(agent_id) ==
    /\ req' = Request("unregister", agent_id, <<>>, {}, 0)
    /\ sent' = <<>>
    /\ UNCHANGED now
    /\ IF agent_id = ""
       THEN /\ resp' = HTTPException(400, "Missing id")
            /\ UNCHANGED <<REGISTERED_SERVICES, lastWrite>>
       ELSE /\ REGISTERED_SERVICES' = Pop(REGISTERED_SERVICES, agent_id)
            /\ resp' = Json(200, <<"unregistered", agent_id>>)
            /\ lastWrite' = [lastWrite EXCEPT ![agent_id] = <<>>]

\* HeartbeatUpdate that refreshes the time and never replaces the serviceUrl
HeartbeatUpdate_KeepUrl(entry, service_url, metadata, t) ==
    [serviceUrl |-> entry.serviceUrl,
     metadata |-> IF metadata # {} THEN metadata ELSE entry.metadata,
     registered_at |-> t]

\* HeartbeatUpdate that stores whatever the body carries, empty or not
HeartbeatUpdate_Overwrite(entry, service_url, metadata, t) ==
    [serviceUrl |-> service_url, metadata |-> metadata, registered_at |-> t]

\* the branch of heartbeat that updates the entry found in the registry
HeartbeatUpdate(entry, service_url, metadata, t) ==
    [serviceUrl |-> IF service_url # <<>> THEN service_url ELSE entry.serviceUrl,
     metadata |-> IF metadata # {} THEN metadata ELSE entry.metadata,
     registered_at |-> t]

\* HeartbeatCreate that drops the metadata of the body
HeartbeatCreate_NoMetadata(service_url, metadata, t) ==
    [serviceUrl |-> service_url, metadata |-> {}, registered_at |-> t]

\* the branch of heartbeat that registers implicitly (service_url or "")
HeartbeatCreate(service_url, metadata, t) ==
    [serviceUrl |-> service_url, metadata |-> metadata, registered_at |-> t]

\* POST /api/agent-services/heartbeat
heartbeat(agent_id, service_url, metadata) ==
    /\ req' = Request("heartbeat", agent_id, service_url, metadata, 0)
    /\ sent' = <<>>
    /\ UNCHANGED now
    /\ IF agent_id = ""
       THEN /\ resp' = HTTPException(400, "Missing id")
            /\ UNCHANGED <<REGISTERED_SERVICES, lastWrite>>
       ELSE /\ REGISTERED_SERVICES' =
                   Put(REGISTERED_SERVICES, agent_id,
                       IF agent_id \in DOMAIN REGISTERED_SERVICES
                       THEN HeartbeatUpdate(REGISTERED_SERVICES[agent_id],
                                            service_url, metadata, now)
                       ELSE HeartbeatCreate(service_url, metadata, now))
            /\ resp' = Json(200, <<"heartbeat accepted", agent_id>>)
            /\ lastWrite' = IF service_url # <<>>
                            THEN [lastWrite EXCEPT ![agent_id] = service_url]
                            ELSE lastWrite

\* Stale with >= in place of >
Stale_Inclusive(ttl_seconds) ==
    {rid \in DOMAIN REGISTERED_SERVICES :
        now - REGISTERED_SERVICES[rid].registered_at >= ttl_seconds}

\* the list `stale` of _purge_stale
Stale(ttl_seconds) ==
    {rid \in DOMAIN REGISTERED_SERVICES :
        now - REGISTERED_SERVICES[rid].registered_at > ttl_seconds}

\* _purge_stale(ttl_seconds), as the registry cleaner calls it
_purge_stale(ttl_seconds) ==
    /\ req' = Request("purge", "", <<>>, {}, ttl_seconds)
    /\ resp' = [status |-> 0, kind |-> "stale", val |-> Stale(ttl_seconds)]
    /\ sent' = <<>>
    /\ UNCHANGED now
    /\ REGISTERED_SERVICES' =
           [rid \in DOMAIN REGISTERED_SERVICES \ Stale(ttl_seconds) |->
               REGISTERED_SERVICES[rid]]
    /\ lastWrite' = [i \in AgentIds |->
                        IF i \in DOMAIN REGISTERED_SERVICES
                           /\ i \notin DOMAIN REGISTERED_SERVICES'
                        THEN <<>> ELSE lastWrite[i]]

\* time passes
Tick ==
    /\ now < MaxTime
    /\ now' = now + 1
    /\ req' = Request("tick", "", <<>>, {}, 0)
    /\ resp' = NoResponse
    /\ sent' = <<>>
    /\ UNCHANGED <<REGISTERED_SERVICES, lastWrite>>

\* one element of the list GET /api/agent-services returns; registered_at -1
\* stands for an element without that key
Service(agent_id, service_url, metadata, registered_at) ==
    [id |-> agent_id, serviceUrl |-> service_url, metadata |-> metadata,
     registered_at |-> registered_at]

\* the element list_services builds for agents[i + 1] (i counted from 0)
ConfigService(i) ==
    LET a == agents[i + 1] IN
    IF a.id \in DOMAIN REGISTERED_SERVICES
    THEN LET registered == REGISTERED_SERVICES[a.id] IN
         Service(a.id, registered.serviceUrl, registered.metadata,
                 registered.registered_at)
    ELSE Service(a.id,
                 IF a.port # 0 THEN CfgPortUrl(a.port) ELSE _agent_service_url(i),
                 {}, -1)

\* a set as a sequence; the registry is modelled without the dict's insertion
\* order, so the order among the registered services that are not in the
\* config is a fixed arbitrary one
RECURSIVE SetToSeq(_)
SetToSeq(S) ==
    IF S = {} THEN <<>>
    ELSE LET x == CHOOSE y \in S : TRUE IN <<x>> \o SetToSeq(S \ {x})

\* Services without the second loop: only the agents of the config are listed
Services_ConfigOnly == [i \in 1..Len(agents) |-> ConfigService(i - 1)]

\* the list list_services returns
Services ==
    LET configured == [i \in 1..Len(agents) |-> ConfigService(i - 1)]
        extra == {rid \in DOMAIN REGISTERED_SERVICES :
                     \A i \in 1..Len(configured) : configured[i].id # rid}
        extras == SetToSeq(extra)
    IN configured \o
       [k \in 1..Len(extras) |->
           LET rinfo == REGISTERED_SERVICES[extras[k]] IN
           Service(extras[k], rinfo.serviceUrl, rinfo.metadata, rinfo.registered_at)]

\* GET /api/agent-services
list_services ==
    /\ req' = Request("list", "", <<>>, {}, 0)
    /\ resp' = Json(200, Services)
    /\ sent' = <<>>
    /\ UNCHANGED <<REGISTERED_SERVICES, now, lastWrite>>

---------------------------------------------------------------------------
(* The command forwarder *)

\* the registered base url a forwarded operation uses for agent_id, <<>> when
\* it falls back to the configuration
resolve(agent_id) ==
    IF agent_id \in DOMAIN REGISTERED_SERVICES
    THEN LET service_url == REGISTERED_SERVICES[agent_id].serviceUrl IN
         IF service_url # <<>> THEN rstrip(service_url) ELSE <<>>
    ELSE <<>>

\* what the worker's HTTP server puts on the wire for the JSON value v
Text(v) == <<"text", v>>

\* resp.json()
ParseJson(text) == text[2]

\* subclasses of httpx.RequestError that client.post / client.get raise when
\* the worker cannot be contacted
RequestError == {"ConnectError", "ConnectTimeout", "ReadTimeout"}

WorkerStatuses == {200, 400, 409}
WorkerValues == {"{result: ok}", "{detail: Agent is paused}"}

\* what one HTTP request to a worker ends in: an exception (exc # "") or a response
Outcomes ==
    [exc : RequestError, status : {0}, text : {Text("")}]
    \cup [exc : {""}, status : WorkerStatuses, text : {Text(v) : v \in WorkerValues}]

\* the url execute_on_agent posts to, for the agent at index idx of the config
ExecuteUrl(idx) ==
    LET agent_id_cfg == agents[idx + 1].id
        service_url == IF agent_id_cfg \in DOMAIN REGISTERED_SERVICES
                       THEN REGISTERED_SERVICES[agent_id_cfg].serviceUrl
                       ELSE <<>>
    IN IF service_url # <<>>
       THEN rstrip(service_url) \o <<"/execute">>
       ELSE _agent_service_url(idx) \o <<"/execute">>

\* the url action_on_agent, logs_on_agent and status_on_agent send to
\* (path is "/action", "/logs" or "/status"): the same code in the three
ForwardUrl(idx, path) ==
    LET agent_cfg == agents[idx + 1]
        fallback == IF agent_cfg.port # 0
                    THEN CfgPortUrl(agent_cfg.port) \o <<path>>
                    ELSE _agent_service_url(idx) \o <<path>>
        url == IF agent_cfg.id \in DOMAIN REGISTERED_SERVICES
               THEN LET service_url == REGISTERED_SERVICES[agent_cfg.id].serviceUrl IN
                    IF service_url # <<>> THEN rstrip(service_url) \o <<path>> ELSE <<>>
               ELSE fallback
    IN IF url = <<>> THEN fallback ELSE url

\* the requests a handler sends for one call, each with what it ended in:
\* `async with httpx.AsyncClient(...)` and one client.post / client.get
Attempts(method, url, timeout, outcome) ==
    << [method |-> method, url |-> url, timeout |-> timeout, outcome |-> outcome] >>

\* Translate with `except httpx.ConnectError`: a timeout is not caught
Translate_ConnectOnly(outcome) ==
    IF outcome.exc # ""
    THEN IF outcome.exc = "ConnectError"
         THEN HTTPException(503, <<"Error contacting agent service: ", outcome.exc>>)
         ELSE HTTPException(500, <<"Internal Server Error">>)
    ELSE IF outcome.status >= 400
         THEN HTTPException(outcome.status, outcome.text)
         ELSE Json(200, ParseJson(outcome.text))

\* Translate with `resp.status_code > 400`
Translate_Above400(outcome) ==
    IF outcome.exc # ""
    THEN IF outcome.exc \in RequestError
         THEN HTTPException(503, <<"Error contacting agent service: ", outcome.exc>>)
         ELSE HTTPException(500, <<"Internal Server Error">>)
    ELSE IF outcome.status > 400
         THEN HTTPException(outcome.status, outcome.text)
         ELSE Json(200, ParseJson(outcome.text))

\* from the outcome of the request to the handler's answer
Translate(outcome) ==
    IF outcome.exc # ""
    THEN IF outcome.exc \in RequestError
         THEN HTTPException(503, <<"Error contacting agent service: ", outcome.exc>>)
         ELSE HTTPException(500, <<"Internal Server Error">>)
    ELSE IF outcome.status >= 400
         THEN HTTPException(outcome.status, outcome.text)
         ELSE Json(200, ParseJson(outcome.text))

\* Forward that looks the id up in the registry before the config: a
\* registered id that is not in the config is forwarded to
Forward_RegistryFirst(op, agent_id, idx, method, url, timeout, outcome) ==
    /\ req' = Request(op, agent_id, <<>>, {}, 0)
    /\ UNCHANGED <<REGISTERED_SERVICES, now, lastWrite>>
    /\ IF idx = -1 /\ resolve(agent_id) = <<>>
       THEN /\ resp' = HTTPException(404, "Agent not found in config")
            /\ sent' = <<>>
       ELSE /\ sent' = Attempts(method,
                                IF idx = -1 THEN resolve(agent_id) ELSE url,
                                timeout, outcome)
            /\ resp' = Translate(outcome)

\* the handler of one forwarded operation, after its path and url are known
Forward(op, agent_id, idx, method, url, timeout, outcome) ==
    /\ req' = Request(op, agent_id, <<>>, {}, 0)
    /\ UNCHANGED <<REGISTERED_SERVICES, now, lastWrite>>
    /\ IF idx = -1
       THEN /\ resp' = HTTPException(404, "Agent not found in config")
            /\ sent' = <<>>
       ELSE /\ sent' = Attempts(method, url, timeout, outcome)
            /\ resp' = Translate(outcome)

\* POST /api/agent-services/{agent_id}/execute
execute_on_agent(agent_id, outcome) ==
    LET idx == ConfigIndex(agent_id) IN
    Forward("execute", agent_id, idx, "POST",
            IF idx = -1 THEN <<>> ELSE ExecuteUrl(idx), 60, outcome)

\* POST /api/agent-services/{agent_id}/action
action_on_agent(agent_id, outcome) ==
    LET idx == ConfigIndex(agent_id) IN
    Forward("action", agent_id, idx, "POST",
            IF idx = -1 THEN <<>> ELSE ForwardUrl(idx, "/action"), 30, outcome)

\* GET /api/agent-services/{agent_id}/logs
logs_on_agent(agent_id, outcome) ==
    LET idx == ConfigIndex(agent_id) IN
    Forward("logs", agent_id, idx, "GET",
            IF idx = -1 THEN <<>> ELSE ForwardUrl(idx, "/logs"), 30, outcome)

\* GET /api/agent-services/{agent_id}/status
status_on_agent(agent_id, outcome) ==
    LET idx == ConfigIndex(agent_id) IN
    Forward("status", agent_id, idx, "GET",
            IF idx = -1 THEN <<>> ELSE ForwardUrl(idx, "/status"), 30, outcome)

---------------------------------------------------------------------------
(* Specifications *)

RegisterStep(ids) ==
    \E agent_id \in ids, service_url \in RequestUrls, metadata \in RequestMetadata :
        register_service(agent_id, service_url, metadata)

UnregisterStep(ids) == \E agent_id \in ids : unregister_service(agent_id)

HeartbeatStep(ids) ==
    \E agent_id \in ids, service_url \in RequestUrls, metadata \in RequestMetadata :
        heartbeat(agent_id, service_url, metadata)

PurgeStep == \E ttl_seconds \in 0..MaxTtl : _purge_stale(ttl_seconds)

ExecuteStep == \E agent_id \in AgentIds, outcome \in Outcomes : execute_on_agent(agent_id, outcome)

ActionStep == \E agent_id \in AgentIds, outcome \in Outcomes : action_on_agent(agent_id, outcome)

LogsStep == \E agent_id \in AgentIds, outcome \in Outcomes : logs_on_agent(agent_id, outcome)

StatusStep == \E agent_id \in AgentIds, outcome \in Outcomes : status_on_agent(agent_id, outcome)

\* the worker and the dashboard are other processes: a step of the manager
\* leaves their state alone
ManagerOnly == UNCHANGED <<workerVars, storeVars, wsVars, cleanerVars, otherVars>>

\* the registry under requests, the cleaner's purges and the passing of time
Next ==
    \/ RegisterStep(RegistryIds \cup NoId) /\ ManagerOnly
    \/ UnregisterStep(RegistryIds \cup NoId) /\ ManagerOnly
    \/ HeartbeatStep(RegistryIds \cup NoId) /\ ManagerOnly
    \/ PurgeStep /\ ManagerOnly
    \/ Tick /\ ManagerOnly
    \/ list_services /\ ManagerOnly

Spec == Init /\ [][Next]_vars

\* the forwarder under registry requests
NextForward ==
    \/ RegisterStep(AgentIds) /\ ManagerOnly
    \/ UnregisterStep(AgentIds) /\ ManagerOnly
    \/ HeartbeatStep(AgentIds) /\ ManagerOnly
    \/ ExecuteStep /\ ManagerOnly
    \/ ActionStep /\ ManagerOnly
    \/ LogsStep /\ ManagerOnly
    \/ StatusStep /\ ManagerOnly

SpecForward == Init /\ [][NextForward]_vars

---------------------------------------------------------------------------
(* The claims about the registry, checked under Spec *)

\* C1: whatever register, heartbeat, unregister requests and purges came
\* before, on this id and on others, resolving an id yields the serviceUrl
\* that the most recent register or heartbeat on that id supplied (as the
\* forwarders use it, without trailing slashes), and nothing once an unregister
\* or a purge has removed it: never a serviceUrl that was replaced or removed.
\* For an id of the config, the url a forwarded operation would send to is
\* that serviceUrl followed by the path, and no supplied url once it is removed.
C1_LastWriteWins ==
    \A i \in AgentIds :
        /\ resolve(i) = rstrip(lastWrite[i])
        /\ ConfigIndex(i) # -1 =>
               LET idx == ConfigIndex(i)
                   supplied(path) == {rstrip(u) \o <<path>> : u \in RequestUrls \ {<<>>}}
               IN IF lastWrite[i] # <<>>
                  THEN /\ ForwardUrl(idx, "/action") = rstrip(lastWrite[i]) \o <<"/action">>
                       /\ ExecuteUrl(idx) = rstrip(lastWrite[i]) \o <<"/execute">>
                  ELSE /\ ForwardUrl(idx, "/action") \notin supplied("/action")
                       /\ ExecuteUrl(idx) \notin supplied("/execute")

\* a heartbeat without serviceUrl has just refreshed an entry whose serviceUrl
\* an earlier request supplied, while another id is registered too
C1_Witness ==
    /\ req.op = "heartbeat" /\ req.id = "planner" /\ req.serviceUrl = <<>>
    /\ lastWrite["planner"] = U2 /\ resolve("planner") = rstrip(U2)
    /\ REGISTERED_SERVICES["planner"].registered_at = now /\ now > 0
    /\ lastWrite["ghost"] = U1 /\ resolve("ghost") = U1

\* C2: a purge with any ttl >= 0 removes exactly the entries with
\* now - lastSeen > ttl and leaves every other entry present and unmodified.
C2_PurgeExact ==
    [][req'.op = "purge" =>
        /\ req'.ttl >= 0
        /\ DOMAIN REGISTERED_SERVICES' =
               {rid \in DOMAIN REGISTERED_SERVICES :
                   ~(now - REGISTERED_SERVICES[rid].registered_at > req'.ttl)}
        /\ \A rid \in DOMAIN REGISTERED_SERVICES' :
               REGISTERED_SERVICES'[rid] = REGISTERED_SERVICES[rid]
        /\ now' = now]_vars

\* a purge has just removed planner's entry and kept ghost's, which is exactly
\* ttl old
C2_Witness ==
    /\ req.op = "purge" /\ req.ttl = 1
    /\ resp.kind = "stale" /\ resp.val = {"planner"}
    /\ "ghost" \in DOMAIN REGISTERED_SERVICES
    /\ now - REGISTERED_SERVICES["ghost"].registered_at = 1

\* the step handles a heartbeat request for the id i
HeartbeatOn(i) == req'.op = "heartbeat" /\ req'.id = i

\* C3 as stated: a heartbeat for an id without an entry creates an entry, and a
\* resolve immediately afterwards uses that entry (it does not fall back).
C3_HeartbeatCreatesAndResolves ==
    [][\A i \in AgentIds :
        (HeartbeatOn(i) /\ i \notin DOMAIN REGISTERED_SERVICES) =>
            /\ i \in DOMAIN REGISTERED_SERVICES'
            /\ resolve(i)' # <<>>]_vars

\* C3 as amended: a heartbeat for an id without an entry creates the entry
\* with the serviceUrl (empty when the body has none) and metadata of the body
\* and lastSeen = now; a resolve immediately afterwards yields the heartbeat's
\* serviceUrl when it carried a non-empty one and falls back to the
\* configuration when it carried none.
C3_HeartbeatCreates ==
    [][\A i \in AgentIds :
        (HeartbeatOn(i) /\ i \notin DOMAIN REGISTERED_SERVICES) =>
            /\ resp'.status = 200
            /\ i \in DOMAIN REGISTERED_SERVICES'
            /\ REGISTERED_SERVICES'[i] =
                   [serviceUrl |-> req'.serviceUrl, metadata |-> req'.metadata,
                    registered_at |-> now']
            /\ resolve(i)' = rstrip(req'.serviceUrl)
            /\ (req'.serviceUrl = <<>>) <=> (resolve(i)' = <<>>)]_vars

\* the first request ever is a heartbeat without serviceUrl: the entry exists
\* and holds an empty serviceUrl
C3_Witness ==
    /\ req.op = "heartbeat" /\ req.id = "planner" /\ req.serviceUrl = <<>>
    /\ req.metadata = M1
    /\ DOMAIN REGISTERED_SERVICES = {"planner"}
    /\ REGISTERED_SERVICES["planner"] =
           [serviceUrl |-> <<>>, metadata |-> M1, registered_at |-> now]
    /\ resolve("planner") = <<>>

\* C4: a heartbeat for an id that has an entry refreshes lastSeen, replaces
\* serviceUrl only when it carries a non-empty one and metadata only when it
\* carries non-empty metadata, keeps the omitted field, and leaves the entries
\* of all other ids as they were.
C4_HeartbeatUpdates ==
    [][\A i \in AgentIds :
        (HeartbeatOn(i) /\ i \in DOMAIN REGISTERED_SERVICES) =>
            LET old == REGISTERED_SERVICES[i] IN
            /\ DOMAIN REGISTERED_SERVICES' = DOMAIN REGISTERED_SERVICES
            /\ REGISTERED_SERVICES'[i].registered_at = now'
            /\ REGISTERED_SERVICES'[i].serviceUrl =
                   IF req'.serviceUrl # <<>> THEN req'.serviceUrl ELSE old.serviceUrl
            /\ REGISTERED_SERVICES'[i].metadata =
                   IF req'.metadata # {} THEN req'.metadata ELSE old.metadata
            /\ \A j \in DOMAIN REGISTERED_SERVICES \ {i} :
                   REGISTERED_SERVICES'[j] = REGISTERED_SERVICES[j]]_vars

\* a heartbeat with neither serviceUrl nor metadata has refreshed planner's
\* entry, which keeps both; ghost's older entry is still there
C4_Witness ==
    /\ req.op = "heartbeat" /\ req.id = "planner"
    /\ req.serviceUrl = <<>> /\ req.metadata = {}
    /\ {"planner", "ghost"} \subseteq DOMAIN REGISTERED_SERVICES
    /\ REGISTERED_SERVICES["planner"] =
           [serviceUrl |-> U1, metadata |-> M1, registered_at |-> now]
    /\ REGISTERED_SERVICES["ghost"].registered_at < now

\* the elements of the list GET /api/agent-services would return now that
\* carry the id i
Listed(i) == {k \in 1..Len(Services) : Services[k].id = i}

\* register has left exactly one entry for the id of the request, with the
\* serviceUrl and metadata of the request and lastSeen = now, and the list of
\* services holds exactly one element with that id, carrying that serviceUrl
Registered ==
    /\ req.id \in DOMAIN REGISTERED_SERVICES
    /\ REGISTERED_SERVICES[req.id] =
           [serviceUrl |-> req.serviceUrl, metadata |-> req.metadata,
            registered_at |-> now]
    /\ Cardinality(Listed(req.id)) = 1
    /\ \A k \in Listed(req.id) : Services[k].serviceUrl = req.serviceUrl

\* C5 as stated: register(id, serviceUrl, metadata) inserts or replaces the
\* entry unconditionally, with no error condition, and the list of services
\* then holds exactly one service with that id and that serviceUrl.
C5_RegisterUnconditional ==
    (req.op = "register" /\ req.id # "") => (resp.status = 200 /\ Registered)

\* C5 as amended: register with a non-empty id and a non-empty serviceUrl
\* inserts or replaces the entry whatever the previous entry was (exactly one
\* entry for the id, with that serviceUrl and metadata and lastSeen = now, and
\* exactly one listed service with that id and serviceUrl, in the config or
\* not); a register whose id or serviceUrl is missing or empty is answered 400
\* and leaves the registry unchanged.
C5_RegisterUpserts ==
    /\ []((req.op = "register" /\ req.id # "" /\ req.serviceUrl # <<>>) =>
             (resp.status = 200 /\ Registered))
    /\ []((req.op = "register" /\ (req.id = "" \/ req.serviceUrl = <<>>)) =>
             resp.status = 400)
    /\ [][(req'.op = "register" /\ (req'.id = "" \/ req'.serviceUrl = <<>>)) =>
             REGISTERED_SERVICES' = REGISTERED_SERVICES]_vars

\* ghost, which is not in the config, has just registered again, later than
\* planner, and is listed after the two agents of the config
C5_Witness ==
    /\ req.op = "register" /\ req.id = "ghost" /\ req.serviceUrl = U2
    /\ req.metadata = M1 /\ resp.status = 200
    /\ now > 0 /\ REGISTERED_SERVICES["ghost"].registered_at = now
    /\ "planner" \in DOMAIN REGISTERED_SERVICES
    /\ Len(Services) = 3 /\ Listed("ghost") = {3} /\ Services[3].serviceUrl = U2

\* the step handles an unregister request for the id i
UnregisterOn(i) == req'.op = "unregister" /\ req'.id = i

\* C6: unregister(id) removes the entry of id when there is one and succeeds
\* without error when there is none; a second unregister changes nothing more;
\* and the entry of every other id stays as it was.
C6_UnregisterIdempotent ==
    /\ []((req.op = "unregister" /\ req.id # "") =>
             /\ resp.status = 200
             /\ req.id \notin DOMAIN REGISTERED_SERVICES
             /\ Pop(REGISTERED_SERVICES, req.id) = REGISTERED_SERVICES)
    /\ [][\A i \in AgentIds : UnregisterOn(i) =>
             /\ DOMAIN REGISTERED_SERVICES' = DOMAIN REGISTERED_SERVICES \ {i}
             /\ \A j \in DOMAIN REGISTERED_SERVICES \ {i} :
                    REGISTERED_SERVICES'[j] = REGISTERED_SERVICES[j]
             /\ (req.op = "unregister" /\ req.id = i) =>
                    (resp'.status = 200 /\ REGISTERED_SERVICES' = REGISTERED_SERVICES)]_vars

\* planner has been unregistered while ghost stays registered with what it had
C6_Witness ==
    /\ req.op = "unregister" /\ req.id = "planner" /\ resp.status = 200
    /\ "planner" \notin DOMAIN REGISTERED_SERVICES
    /\ "ghost" \in DOMAIN REGISTERED_SERVICES
    /\ REGISTERED_SERVICES["ghost"].serviceUrl = U1
    /\ REGISTERED_SERVICES["ghost"].registered_at < now

---------------------------------------------------------------------------
(* The claims about the forwarder, checked under SpecForward *)

ForwardOps == {"execute", "action", "logs", "status"}

\* the id is one of the agents of the config
InConfig(i) == \E k \in 1..Len(agents) : agents[k].id = i

\* the base url the claimed order chooses for a configured id: the registered
\* serviceUrl when it is not empty, else the port of the config when the config
\* gives one, else base_port + index
ClaimedBase(i) ==
    LET k == CHOOSE n \in 1..Len(agents) : agents[n].id = i IN
    IF i \in DOMAIN REGISTERED_SERVICES /\ REGISTERED_SERVICES[i].serviceUrl # <<>>
    THEN rstrip(REGISTERED_SERVICES[i].serviceUrl)
    ELSE IF agents[k].port # 0
    THEN <<"http://127.0.0.1:", ToString(agents[k].port)>>
    ELSE <<"http://127.0.0.1:", ToString(BasePort + (k - 1))>>

\* C7: each of execute, action, status and logs sends its request to the base
\* url chosen in the same order (registered serviceUrl, else config port, else
\* base_port + index), followed by the path of the operation.
C7_SameResolutionOrder ==
    (req.op \in ForwardOps /\ InConfig(req.id)) =>
        /\ Len(sent) = 1
        /\ sent[1].url = ClaimedBase(req.id) \o << "/" \o req.op >>

\* C8: for an id that is not in the config, each forwarded operation answers
\* 404 and sends nothing to any worker, registered or not.
C8_UnknownAgent404 ==
    (req.op \in ForwardOps /\ ~InConfig(req.id)) =>
        /\ resp.status = 404 /\ resp.kind = "detail"
        /\ sent = <<>>

\* an execute for ghost, which is registered and not in the config, got 404
C8_Witness ==
    /\ req.op = "execute" /\ req.id = "ghost"
    /\ "ghost" \in DOMAIN REGISTERED_SERVICES
    /\ REGISTERED_SERVICES["ghost"].serviceUrl = U1
    /\ resp.status = 404 /\ sent = <<>>

\* C9: when the request to the worker fails at transport level, whatever the
\* exception, the operation answers 503 with the transport error in the
\* detail, after exactly one attempt, and the registry is untouched.
C9_Unreachable503 ==
    /\ []((req.op \in ForwardOps /\ sent # <<>> /\ sent[1].outcome.exc # "") =>
             /\ Len(sent) = 1
             /\ resp.status = 503 /\ resp.kind = "detail"
             /\ resp.val = <<"Error contacting agent service: ", sent[1].outcome.exc>>)
    /\ [][req'.op \in ForwardOps =>
             (REGISTERED_SERVICES' = REGISTERED_SERVICES /\ Len(sent') <= 1)]_vars

\* a status request to the registered planner timed out and was answered 503
C9_Witness ==
    /\ req.op = "status" /\ req.id = "planner"
    /\ "planner" \in DOMAIN REGISTERED_SERVICES
    /\ Len(sent) = 1 /\ sent[1].outcome.exc = "ReadTimeout"
    /\ sent[1].url = U1 \o <<"/status">>
    /\ resp.status = 503

---------------------------------------------------------------------------
(* The worker's lifecycle: src/agents/mcp_service.py                       *)
(*                                                                         *)
(* The handlers run on one event loop.  execute awaits the agent's call,   *)
(* which runs in an executor thread: the handler is two steps, execute up  *)
(* to the await and execute_done after it, and other handlers run in       *)
(* between.  A stop or restart starts a drain thread before its handler    *)
(* returns: the thread runs beside the event loop, so between the start of *)
(* the thread and the return of the handler (`returning`) the thread's     *)
(* steps may happen, and no other handler's.                               *)
(***************************************************************************)

\* params.get("task", "execute")
Tasks == {"execute", "do-something"}

\* what agent_instance.execute ends in
AgentOutcomes == {"returns", "raises"}

\* req.get("action"): None when the body has no action, "archive" for an
\* action the worker does not know
Actions == {None, "pause", "resume", "stop", "restart", "archive"}

WorkerRequest(op, arg) == [op |-> op, arg |-> arg]

\* the event loop runs a handler: the process lives and no handler is in
\* the middle of its statements
Serving == process = "running" /\ returning = None

ExecuteGate_StatusOnly(status, shutdown_requested) ==
    IF status = "paused" THEN "Agent is paused"
    ELSE IF status = "stopping" THEN "Agent is stopping"
    ELSE None

\* the two checks at the head of execute: the detail of the 409 raised, None
\* when the request goes through
ExecuteGate(status, shutdown_requested) ==
    IF status = "paused" THEN "Agent is paused"
    ELSE IF shutdown_requested \/ status = "stopping" THEN "Agent is stopping"
    ELSE None

\* POST /execute, up to `await loop.run_in_executor(...)`
execute(task) ==
    /\ Serving
    /\ wreq' = WorkerRequest("execute", task)
    /\ LET gate == ExecuteGate(_lifecycle.status, _shutdown_requested) IN
       IF gate # None
       THEN /\ wresp' = HTTPException(409, gate)
            /\ UNCHANGED <<_lifecycle, in_flight>>
       ELSE /\ in_flight < MaxInFlight
            /\ _lifecycle' = [_lifecycle EXCEPT !.current_task = task]
            /\ in_flight' = in_flight + 1
            /\ wresp' = NoResponse
    /\ UNCHANGED <<_shutdown_requested, process, drains, returning, cycle>>

\* POST /execute, from the return of the agent's call on: current_task is
\* cleared on the line after the await, which an exception skips
execute_done(outcome) ==
    /\ Serving
    /\ in_flight > 0
    /\ wreq' = WorkerRequest("execute_done", outcome)
    /\ in_flight' = in_flight - 1
    /\ IF outcome = "returns"
       THEN /\ _lifecycle' = [_lifecycle EXCEPT !.current_task = None]
            /\ wresp' = Json(200, "result")
       ELSE /\ wresp' = HTTPException(500, "str(e)")
            /\ UNCHANGED _lifecycle
    /\ UNCHANGED <<_shutdown_requested, process, drains, returning, cycle>>

\* the thread a stop ("exit") or a restart ("exec") starts, and the time it
\* has waited since
DrainThread(target) == [target |-> target, waited |-> 0]

\* history: pause -> resume with no stop or restart
CycleAfter(act) ==
    IF cycle = "stopping" \/ act \in {"stop", "restart"} THEN "stopping"
    ELSE IF act = "pause" THEN "paused"
    ELSE IF act = "resume" /\ cycle \in {"paused", "resumed"} THEN "resumed"
    ELSE IF act = "resume" THEN "none"
    ELSE cycle

\* POST /action, up to its return (for stop and restart: up to the start of
\* the drain thread)
action(act) ==
    /\ Serving
    /\ wreq' = WorkerRequest("action", act)
    /\ cycle' = CycleAfter(act)
    /\ UNCHANGED <<process, in_flight>>
    /\ CASE act = None ->
              /\ wresp' = HTTPException(400, "Missing action")
              /\ UNCHANGED <<_lifecycle, _shutdown_requested, drains, returning>>
         [] act = "pause" ->
              /\ _lifecycle' = [_lifecycle EXCEPT !.status = "paused"]
              /\ wresp' = Json(200, "paused")
              /\ UNCHANGED <<_shutdown_requested, drains, returning>>
         [] act = "resume" ->
              /\ _lifecycle' = [_lifecycle EXCEPT !.status = "running"]
              /\ wresp' = Json(200, "resumed")
              /\ UNCHANGED <<_shutdown_requested, drains, returning>>
         [] act = "stop" ->
              /\ Len(drains) < MaxDrains
              /\ _shutdown_requested' = TRUE
              /\ _lifecycle' = [_lifecycle EXCEPT !.status = "stopping"]
              /\ drains' = Append(drains, DrainThread("exit"))
              /\ returning' = "stopping"
              /\ wresp' = NoResponse
         [] act = "restart" ->
              /\ Len(drains) < MaxDrains
              /\ _shutdown_requested' = TRUE
              /\ _lifecycle' = [_lifecycle EXCEPT !.status = "stopping"]
              /\ drains' = Append(drains, DrainThread("exec"))
              /\ returning' = "restarting"
              /\ wresp' = NoResponse
         [] OTHER ->
              /\ wresp' = HTTPException(400, "Unsupported action")
              /\ UNCHANGED <<_lifecycle, _shutdown_requested, drains, returning>>

\* POST /action with stop or restart: `return {"message": ...}`, after the
\* thread was started
action_return ==
    /\ process = "running"
    /\ returning # None
    /\ wreq' = WorkerRequest("action_return", returning)
    /\ wresp' = Json(200, returning)
    /\ returning' = None
    /\ UNCHANGED <<_lifecycle, _shutdown_requested, process, in_flight, drains, cycle>>

DrainOver_NoTimeout(d) == _lifecycle.current_task = None

\* the two `break`s of the drain loop
DrainOver(d) ==
    \/ _lifecycle.current_task = None
    \/ d.waited > DrainTimeout

\* the thread of a stop: out of the loop, os._exit(0)
_drain_and_exit(i) ==
    /\ process = "running"
    /\ drains[i].target = "exit"
    /\ DrainOver(drains[i])
    /\ process' = "exited"
    /\ wreq' = WorkerRequest("_drain_and_exit", drains[i].waited)
    /\ UNCHANGED <<_lifecycle, _shutdown_requested, in_flight, drains, returning, wresp, cycle>>

\* the thread of a restart: out of the loop, os.execv(...), and os._exit(1)
\* when that raises
_drain_and_exec(i, execv) ==
    /\ process = "running"
    /\ drains[i].target = "exec"
    /\ DrainOver(drains[i])
    /\ process' = IF execv = "raises" THEN "exited" ELSE "replaced"
    /\ wreq' = WorkerRequest("_drain_and_exec", drains[i].waited)
    /\ UNCHANGED <<_lifecycle, _shutdown_requested, in_flight, drains, returning, wresp, cycle>>

\* time.time() advances under the waiting drain threads
WorkerTick ==
    /\ process = "running"
    /\ \E i \in 1..Len(drains) : drains[i].waited <= DrainTimeout
    /\ drains' = [i \in 1..Len(drains) |->
                    [drains[i] EXCEPT !.waited =
                        IF @ <= DrainTimeout THEN @ + 1 ELSE @]]
    /\ wreq' = WorkerRequest("tick", None)
    /\ UNCHANGED <<_lifecycle, _shutdown_requested, process, in_flight, returning, wresp, cycle>>

\* the manager and the dashboard are other processes
WorkerOnly == UNCHANGED <<managerVars, storeVars, wsVars, cleanerVars, otherVars>>

WorkerExecute == \E task \in Tasks : execute(task)

WorkerExecuteDone == \E outcome \in AgentOutcomes : execute_done(outcome)

WorkerAction == \E act \in Actions : action(act)

DrainExit == \E i \in 1..Len(drains) : _drain_and_exit(i)

DrainExec == \E i \in 1..Len(drains), execv \in AgentOutcomes : _drain_and_exec(i, execv)

NextWorker ==
    \/ WorkerExecute /\ WorkerOnly
    \/ WorkerExecuteDone /\ WorkerOnly
    \/ WorkerAction /\ WorkerOnly
    \/ action_return /\ WorkerOnly
    \/ DrainExit /\ WorkerOnly
    \/ DrainExec /\ WorkerOnly
    \/ WorkerTick /\ WorkerOnly

SpecWorker == Init /\ [][NextWorker]_vars

\* the drain threads are scheduled and their clock advances; nothing makes
\* the agent's call return
SpecWorkerLive ==
    /\ SpecWorker
    /\ WF_vars(DrainExit /\ WorkerOnly)
    /\ WF_vars(DrainExec /\ WorkerOnly)
    /\ WF_vars(WorkerTick /\ WorkerOnly)

---------------------------------------------------------------------------
(* The claims about the worker's lifecycle, checked under SpecWorker *)

\* the step is the head of an execute handler
ExecuteOn == wreq'.op = "execute"

\* the request went through the gate: the agent's execute is called
Accepts == in_flight' = in_flight + 1

\* the lifecycle lets execute requests in
Open == _lifecycle.status = "running" /\ ~_shutdown_requested

\* C11 without its last words: an execute request is accepted exactly when
\* the status is running and no stop or restart was requested; a request
\* that is not accepted is answered 409, does not call the agent and leaves
\* the lifecycle (status and current_task) as it was; after pause followed by
\* resume, with no stop or restart, the request is accepted again
GateHolds ==
    ExecuteOn =>
        /\ Accepts <=> Open
        /\ ~Accepts =>
              /\ wresp'.status = 409
              /\ in_flight' = in_flight
              /\ _lifecycle' = _lifecycle
        /\ cycle = "resumed" => Accepts

\* C11 as stated: the above, and the execute accepted after pause followed by
\* resume returns 200
C11_AcceptedReturns200 ==
    [][/\ GateHolds
       /\ (wreq'.op = "execute_done" /\ cycle = "resumed") => wresp'.status = 200
      ]_vars

\* C11, amended: the above, and the accepted execute returns 200 when the
\* agent's execute returns, 500 when it raises
C11_AcceptedExactlyWhenOpen ==
    [][/\ GateHolds
       /\ wreq'.op = "execute_done" =>
              /\ wreq'.arg = "returns" => wresp'.status = 200
              /\ wreq'.arg = "raises" => wresp'.status = 500
      ]_vars

\* an execute request that came after pause followed by resume was accepted
C11_Witness ==
    /\ cycle = "resumed"
    /\ wreq.op = "execute"
    /\ wresp = NoResponse
    /\ in_flight > 0
    /\ _lifecycle.current_task = wreq.arg

\* the step is the action handler with this action
ActionOn(act) == wreq'.op = "action" /\ wreq'.arg = act

\* C12: the lifecycle status follows the state machine: a pause changes the
\* status only from running (to paused), a resume changes it only from paused
\* (to running), and once the status is stopping no pause or resume changes it
C12_LifecycleStateMachine ==
    [][/\ (ActionOn("pause") /\ _lifecycle'.status # _lifecycle.status) =>
              (_lifecycle.status = "running" /\ _lifecycle'.status = "paused")
       /\ (ActionOn("resume") /\ _lifecycle'.status # _lifecycle.status) =>
              (_lifecycle.status = "paused" /\ _lifecycle'.status = "running")
       /\ ((ActionOn("pause") \/ ActionOn("resume")) /\ _lifecycle.status = "stopping") =>
              _lifecycle'.status = "stopping"
      ]_vars

\* the step ends the process: os._exit or os.execv
Ends == process = "running" /\ process' # "running"

\* C13: the process is ended only once no accepted execute is still in
\* flight or its drain has waited longer than drainTimeout, also with several
\* executes running at the same time
C13_EndsOnlyWhenDrained ==
    [][Ends =>
          \/ in_flight = 0
          \/ \E i \in 1..Len(drains) : drains[i].waited > DrainTimeout
      ]_vars

\* C14: once a stop or restart was accepted (its drain thread started), the
\* process eventually exits or is replaced, whether or not the agent's call
\* ever returns
C14_StopLeadsToExit == (drains # <<>>) ~> (process # "running")

\* the process was ended by a drain that gave up waiting: the task is still
\* set and the execute still in flight
C14_Witness ==
    /\ process # "running"
    /\ in_flight > 0
    /\ _lifecycle.current_task # None
    /\ wreq.op \in {"_drain_and_exit", "_drain_and_exec"}
    /\ wreq.arg > DrainTimeout

\* C15: the process does not end while the answer of a stop or restart has
\* not been returned
C15_AnswerBeforeExit == [][Ends => returning = None]_vars

---------------------------------------------------------------------------
(* The dashboard's agent state store: src/web/routers/agents.py            *)
(*                                                                         *)
(* Every method of AgentStore takes the store's lock, and nothing awaits   *)
(* while holding it; the lock is free whenever a coroutine asks for it, so *)
(* `async with self._lock` never suspends, and a handler that calls        *)
(* get_agent and then update_agent runs from start to end as one step.     *)
(* A name is a sequence of pieces of text; <<>> is None (or ""), which     *)
(* `name or ...` treats alike.                                             *)
(***************************************************************************)

\* the ids the dashboard is asked about
StoreIds == {"planner", "executor"}

\* the ids that get updates, actions and tasks
ActedIds == {"planner"}

Names == {<<>>, <<"Planner Agent">>}

\* datetime.utcnow().isoformat()
Iso(t) == <<"iso", t>>

\* f"Agent {agent_id}"
DefaultName(agent_id) == <<"Agent ", agent_id>>

\* AgentState(id=..., name=..., last_activity=...): the other fields take the
\* defaults of the model class
AgentState(agent_id, name, last_activity) ==
    [id |-> agent_id, name |-> name, status |-> "idle", current_task |-> None,
     tasks_pending |-> 0, tasks_completed |-> 0, tasks_failed |-> 0,
     uptime_seconds |-> 0, last_activity |-> last_activity, metrics |-> {}]

StoreRequest(op, agent_id, arg) == [op |-> op, id |-> agent_id, arg |-> arg]

\* what a call gave: a value returned, an exception raised, or the answer of
\* the action endpoint; broadcast is the message handed to
\* connection_manager.broadcast, None when there was none
Returned(val) == [status |-> 0, kind |-> "return", val |-> val, broadcast |-> None]

Raised(exception) == [status |-> 0, kind |-> "raise", val |-> exception, broadcast |-> None]

Answer(status, kind, val, broadcast) ==
    [status |-> status, kind |-> kind, val |-> val, broadcast |-> broadcast]

\* history: the record as it was before a pause, until the record is written
\* by anything but the resume that follows the pause
Forget(agent_id) == Pop(prePause, agent_id)

ensure_agent_rename(agent_id, name) ==
    /\ sreq' = StoreRequest("ensure_agent", agent_id, name)
    /\ _agents' =
          IF agent_id \notin DOMAIN _agents
          THEN Put(_agents, agent_id,
                   AgentState(agent_id,
                              IF name = <<>> THEN DefaultName(agent_id) ELSE name,
                              Iso(clock)))
          ELSE IF name = <<>> THEN _agents
          ELSE [_agents EXCEPT ![agent_id].name = name]
    /\ sresp' = Returned(_agents'[agent_id])
    /\ UNCHANGED <<clock, prePause>>

\* AgentStore.ensure_agent
ensure_agent(agent_id, name) ==
    /\ sreq' = StoreRequest("ensure_agent", agent_id, name)
    /\ _agents' =
          IF agent_id \notin DOMAIN _agents
          THEN Put(_agents, agent_id,
                   AgentState(agent_id,
                              IF name = <<>> THEN DefaultName(agent_id) ELSE name,
                              Iso(clock)))
          ELSE _agents
    /\ sresp' = Returned(_agents'[agent_id])
    /\ UNCHANGED <<clock, prePause>>

\* AgentStore.delete_agent
delete_agent(agent_id) ==
    /\ sreq' = StoreRequest("delete_agent", agent_id, None)
    /\ _agents' = Pop(_agents, agent_id)
    /\ sresp' = Returned(None)
    /\ prePause' = Forget(agent_id)
    /\ UNCHANGED clock

Updated_Rebuild(agent, kwargs, last_activity) ==
    [f \in DOMAIN agent |->
        IF f = "last_activity" THEN last_activity
        ELSE IF f \in DOMAIN kwargs THEN kwargs[f]
        ELSE IF f \in {"id", "name"} THEN agent[f]
        ELSE AgentState(agent.id, agent.name, last_activity)[f]]

\* the body of update_agent on the record it found: setattr for the keyword
\* arguments that name an attribute, then the stamp
Updated(agent, kwargs, last_activity) ==
    [f \in DOMAIN agent |->
        IF f = "last_activity" THEN last_activity
        ELSE IF f \in DOMAIN kwargs THEN kwargs[f]
        ELSE agent[f]]

\* the keyword arguments update_agent is called with outside the action
\* endpoint: the module's integration notes, a key that is no attribute, and
\* none at all
UpdateKwargs ==
    { [status |-> "running", current_task |-> "Generating response"],
      [status |-> "idle", current_task |-> None],
      [colour |-> "red"],
      <<>> }

\* AgentStore.update_agent
update_agent(agent_id, kwargs) ==
    /\ sreq' = StoreRequest("update_agent", agent_id, kwargs)
    /\ UNCHANGED clock
    /\ IF agent_id \notin DOMAIN _agents
       THEN /\ sresp' = Raised("ValueError")
            /\ UNCHANGED <<_agents, prePause>>
       ELSE /\ _agents' = [_agents EXCEPT ![agent_id] = Updated(@, kwargs, Iso(clock))]
            /\ sresp' = Returned(_agents'[agent_id])
            /\ prePause' = Forget(agent_id)

\* the action strings the endpoint is sent; "archive" is none it knows
DashboardActions == {"pause", "Pause", "resume", "stop", "restart", "prioritize", "archive"}

\* str.lower() on those
Lower(act) == IF act = "Pause" THEN "pause" ELSE act

\* action.parameters, a dict as a set of <<key, value>> pairs
Parameters == {{}, {<<"priority", "high">>}}

\* dict.get(key)
Get(d, key) ==
    IF \E kv \in d : kv[1] = key
    THEN (CHOOSE kv \in d : kv[1] = key)[2]
    ELSE None

\* d[key] = value
SetItem(d, key, value) == {kv \in d : kv[1] # key} \cup {<<key, value>>}

Refused(detail) == [status |-> 400, detail |-> detail]

Done(agent, message) == [status |-> 200, agent |-> agent, message |-> message]

Acted_PauseAlways(agent, action_type, parameters, last_activity) ==
    IF action_type = "pause"
    THEN Done(Updated(agent, [status |-> "paused"], last_activity), "paused")
    ELSE IF action_type = "resume"
    THEN IF agent.status # "paused"
         THEN Refused("Can only resume paused agents")
         ELSE Done(Updated(agent, [status |-> "running"], last_activity), "resumed")
    ELSE Refused("Unknown action")

Acted_ResumeIdle(agent, action_type, parameters, last_activity) ==
    IF action_type = "pause"
    THEN IF agent.status # "running"
         THEN Refused("Can only pause running agents")
         ELSE Done(Updated(agent, [status |-> "paused"], last_activity), "paused")
    ELSE IF action_type = "resume"
    THEN IF agent.status # "paused"
         THEN Refused("Can only resume paused agents")
         ELSE Done(Updated(agent, [status |-> "running", current_task |-> None],
                           last_activity), "resumed")
    ELSE Refused("Unknown action")

\* the if / elif chain of execute_agent_action on the record get_agent
\* returned: the 400 it raises, or the record update_agent returns and the
\* message
Acted(agent, action_type, parameters, last_activity) ==
    CASE action_type = "pause" ->
            IF agent.status # "running"
            THEN Refused("Can only pause running agents")
            ELSE Done(Updated(agent, [status |-> "paused"], last_activity), "paused")
      [] action_type = "resume" ->
            IF agent.status # "paused"
            THEN Refused("Can only resume paused agents")
            ELSE Done(Updated(agent, [status |-> "running"], last_activity), "resumed")
      [] action_type = "stop" ->
            Done(Updated(agent, [status |-> "stopped", current_task |-> None],
                         last_activity), "stopped")
      [] action_type = "restart" ->
            Done(Updated(agent, [status |-> "running", current_task |-> None,
                                 tasks_pending |-> 0, uptime_seconds |-> 0],
                         last_activity), "restarted")
      [] action_type = "prioritize" ->
            IF Get(parameters, "priority") = None
            THEN Refused("Priority parameter required")
            ELSE Done([Updated(agent, <<>>, last_activity) EXCEPT
                          !.metrics = SetItem(@, "priority", Get(parameters, "priority"))],
                      "priority set")
      [] OTHER -> Refused("Unknown action")

execute_agent_action_stamps(agent_id, act, parameters) ==
    /\ sreq' = StoreRequest("action", agent_id, Lower(act))
    /\ UNCHANGED clock
    /\ IF agent_id \notin DOMAIN _agents
       THEN /\ sresp' = Answer(404, "detail", "not found", None)
            /\ UNCHANGED <<_agents, prePause>>
       ELSE LET r == Acted(_agents[agent_id], Lower(act), parameters, Iso(clock)) IN
            IF r.status # 200
            THEN /\ sresp' = Answer(r.status, "detail", r.detail, None)
                 /\ _agents' = [_agents EXCEPT ![agent_id] = Updated(@, <<>>, Iso(clock))]
                 /\ prePause' = Forget(agent_id)
            ELSE /\ _agents' = [_agents EXCEPT ![agent_id] = r.agent]
                 /\ sresp' = Answer(200, "json", r.agent,
                                    [type |-> "agent_updated", agent |-> r.agent])
                 /\ prePause' =
                       IF Lower(act) = "pause"
                       THEN Put(prePause, agent_id, _agents[agent_id])
                       ELSE IF Lower(act) = "resume" THEN prePause
                       ELSE Forget(agent_id)

\* POST /api/agents/{agent_id}/action
execute_agent_action(agent_id, act, parameters) ==
    /\ sreq' = StoreRequest("action", agent_id, Lower(act))
    /\ UNCHANGED clock
    /\ IF agent_id \notin DOMAIN _agents
       THEN /\ sresp' = Answer(404, "detail", "not found", None)
            /\ UNCHANGED <<_agents, prePause>>
       ELSE LET r == Acted(_agents[agent_id], Lower(act), parameters, Iso(clock)) IN
            IF r.status # 200
            THEN /\ sresp' = Answer(r.status, "detail", r.detail, None)
                 /\ UNCHANGED <<_agents, prePause>>
            ELSE /\ _agents' = [_agents EXCEPT ![agent_id] = r.agent]
                 /\ sresp' = Answer(200, "json", r.agent,
                                    [type |-> "agent_updated", agent |-> r.agent])
                 /\ prePause' =
                       IF Lower(act) = "pause"
                       THEN Put(prePause, agent_id, _agents[agent_id])
                       ELSE IF Lower(act) = "resume" THEN prePause
                       ELSE Forget(agent_id)

\* broadcast_task_added: the broadcast, then the pending counter
broadcast_task_added(agent_id) ==
    /\ sreq' = StoreRequest("task_added", agent_id, None)
    /\ sresp' = Answer(0, "return", None, [type |-> "task_added", agent_id |-> agent_id])
    /\ UNCHANGED clock
    /\ IF agent_id \in DOMAIN _agents
       THEN /\ _agents[agent_id].tasks_pending < MaxTasks
            /\ _agents' = [_agents EXCEPT ![agent_id] =
                  Updated(@, [tasks_pending |-> @.tasks_pending + 1], Iso(clock))]
            /\ prePause' = Forget(agent_id)
       ELSE UNCHANGED <<_agents, prePause>>

Max_Second(a, b) == b

Max(a, b) == IF a >= b THEN a ELSE b

\* broadcast_task_completed: the broadcast, then the counters; the request
\* is kept with the tasks_pending that get_agent showed
broadcast_task_completed(agent_id, success) ==
    /\ sreq' = StoreRequest("task_completed", agent_id,
                            [success |-> success,
                             pending |-> IF agent_id \in DOMAIN _agents
                                         THEN _agents[agent_id].tasks_pending ELSE 0])
    /\ sresp' = Answer(0, "return", None, [type |-> "task_completed", agent_id |-> agent_id])
    /\ UNCHANGED clock
    /\ IF agent_id \in DOMAIN _agents
       THEN /\ _agents[agent_id].tasks_completed + _agents[agent_id].tasks_failed < MaxTasks
            /\ _agents' = [_agents EXCEPT ![agent_id] =
                  Updated(@, [tasks_pending |-> Max(0, @.tasks_pending - 1),
                              tasks_completed |-> @.tasks_completed + (IF success THEN 1 ELSE 0),
                              tasks_failed |-> @.tasks_failed + (IF success THEN 0 ELSE 1),
                              current_task |-> None],
                          Iso(clock))]
            /\ prePause' = Forget(agent_id)
       ELSE UNCHANGED <<_agents, prePause>>

\* datetime.utcnow() advances
StoreTick ==
    /\ clock < MaxClock
    /\ clock' = clock + 1
    /\ sreq' = StoreRequest("tick", "", None)
    /\ sresp' = Returned(None)
    /\ UNCHANGED <<_agents, prePause>>

\* the manager and the worker are other processes, and no client is connected:
\* of the broadcast a handler schedules, the step keeps the message (in sresp)
StoreOnly == UNCHANGED <<managerVars, workerVars, wsVars, cleanerVars, otherVars>>

EnsureStep == \E agent_id \in StoreIds, name \in Names : ensure_agent(agent_id, name)

DeleteStep == \E agent_id \in StoreIds : delete_agent(agent_id)

UpdateStep == \E agent_id \in ActedIds, kwargs \in UpdateKwargs : update_agent(agent_id, kwargs)

DashboardActionStep ==
    \E agent_id \in ActedIds, act \in DashboardActions, parameters \in Parameters :
        execute_agent_action(agent_id, act, parameters)

TaskAddedStep == \E agent_id \in ActedIds : broadcast_task_added(agent_id)

TaskCompletedStep ==
    \E agent_id \in ActedIds, success \in BOOLEAN : broadcast_task_completed(agent_id, success)

NextStore ==
    \/ EnsureStep /\ StoreOnly
    \/ DeleteStep /\ StoreOnly
    \/ UpdateStep /\ StoreOnly
    \/ DashboardActionStep /\ StoreOnly
    \/ TaskAddedStep /\ StoreOnly
    \/ TaskCompletedStep /\ StoreOnly
    \/ StoreTick /\ StoreOnly

SpecStore == Init /\ [][NextStore]_vars

---------------------------------------------------------------------------
(* The claims about the agent state store, checked under SpecStore *)

\* the records other than i's are the same before and after the step
OthersKept(i) ==
    \A j \in StoreIds \ {i} :
        /\ j \in DOMAIN _agents' <=> j \in DOMAIN _agents
        /\ j \in DOMAIN _agents => _agents'[j] = _agents[j]

EnsureOn(i) == sreq'.op = "ensure_agent" /\ sreq'.id = i

\* C16: ensure_agent(id, name) returns the record of id as it is, whatever
\* name is passed, when there is one; otherwise it creates and returns a
\* record of that id with status idle and zero counters; no other record is
\* touched
C16_EnsureCreatesIfAbsent ==
    [][\A i \in StoreIds : EnsureOn(i) =>
          /\ i \in DOMAIN _agents =>
                /\ _agents' = _agents
                /\ sresp'.val = _agents[i]
          /\ i \notin DOMAIN _agents =>
                /\ i \in DOMAIN _agents'
                /\ sresp'.val = _agents'[i]
                /\ _agents'[i].id = i
                /\ _agents'[i].status = "idle"
                /\ _agents'[i].tasks_pending = 0
                /\ _agents'[i].tasks_completed = 0
                /\ _agents'[i].tasks_failed = 0
          /\ OthersKept(i)
      ]_vars

\* ensure_agent was given a name for an id whose record has another name,
\* beside a second record
C16_Witness ==
    /\ sreq.op = "ensure_agent"
    /\ sreq.arg # <<>>
    /\ sresp.val.name # sreq.arg
    /\ _agents[sreq.id] = sresp.val
    /\ DOMAIN _agents = StoreIds

UpdateOn(i) == sreq'.op = "update_agent" /\ sreq'.id = i

\* C17: update_agent on an id that is not in the store raises the not-found
\* error and leaves the store as it was; on an id in the store it sets the
\* fields given, stamps last_activity, and leaves every other field and
\* every other record as they were
C17_UpdateMergesOrFails ==
    [][\A i \in StoreIds : UpdateOn(i) =>
          /\ i \notin DOMAIN _agents =>
                /\ sresp'.kind = "raise"
                /\ sresp'.val = "ValueError"
                /\ _agents' = _agents
          /\ i \in DOMAIN _agents =>
                /\ i \in DOMAIN _agents'
                /\ sresp'.kind = "return"
                /\ \A f \in DOMAIN _agents[i] :
                      _agents'[i][f] =
                          IF f = "last_activity" THEN Iso(clock)
                          ELSE IF f \in DOMAIN sreq'.arg THEN sreq'.arg[f]
                          ELSE _agents[i][f]
                /\ DOMAIN _agents'[i] = DOMAIN _agents[i]
          /\ OthersKept(i)
      ]_vars

\* update_agent raised on an id that is not in the store, while the store
\* holds another record
C17_Witness ==
    /\ sreq.op = "update_agent"
    /\ sresp.kind = "raise"
    /\ sreq.id \notin DOMAIN _agents
    /\ DOMAIN sreq.arg # {}
    /\ DOMAIN _agents # {}

\* the step is the action endpoint, asked for act on i, which is in the store
DashboardOn(i, act) ==
    /\ sreq'.op = "action"
    /\ sreq'.id = i
    /\ sreq'.arg = act
    /\ i \in DOMAIN _agents

\* C18: pause on an agent that is not running and resume on an agent that is
\* not paused are answered 400; pause on a running agent makes it paused,
\* resume on a paused agent makes it running
C18_PauseResumePreconditions ==
    [][\A i \in ActedIds :
          /\ (DashboardOn(i, "pause") /\ _agents[i].status # "running") =>
                sresp'.status = 400
          /\ (DashboardOn(i, "resume") /\ _agents[i].status # "paused") =>
                sresp'.status = 400
          /\ (DashboardOn(i, "pause") /\ _agents[i].status = "running") =>
                (sresp'.status = 200 /\ _agents'[i].status = "paused")
          /\ (DashboardOn(i, "resume") /\ _agents[i].status = "paused") =>
                (sresp'.status = 200 /\ _agents'[i].status = "running")
      ]_vars

\* a pause was refused on a stopped agent
C18_Witness ==
    /\ sreq.op = "action"
    /\ sreq.arg = "pause"
    /\ sresp.status = 400
    /\ sreq.id \in DOMAIN _agents
    /\ _agents[sreq.id].status = "stopped"

\* C19: a resume that follows a pause of a running agent succeeds and leaves
\* the record running, with the counters, current_task, name and metrics the
\* record had before the pause
C19_PauseResumeRestores ==
    [][\A i \in ActedIds :
          (DashboardOn(i, "resume") /\ i \in DOMAIN prePause /\ _agents[i].status = "paused") =>
              /\ prePause[i].status = "running"
              /\ sresp'.status = 200
              /\ _agents'[i].status = "running"
              /\ _agents'[i].tasks_completed = prePause[i].tasks_completed
              /\ _agents'[i].tasks_pending = prePause[i].tasks_pending
              /\ _agents'[i].tasks_failed = prePause[i].tasks_failed
              /\ _agents'[i].current_task = prePause[i].current_task
              /\ _agents'[i].name = prePause[i].name
              /\ _agents'[i].metrics = prePause[i].metrics
      ]_vars

\* a running agent with a task, a completed task and a priority was paused
\* and resumed
C19_Witness ==
    /\ sreq.op = "action"
    /\ sreq.arg = "resume"
    /\ sresp.status = 200
    /\ sreq.id \in DOMAIN prePause
    /\ prePause[sreq.id].current_task # None
    /\ prePause[sreq.id].tasks_completed > 0
    /\ prePause[sreq.id].metrics # {}
    /\ _agents[sreq.id].status = "running"

\* C20: stop on an agent that is already stopped is answered 400 and changes
\* nothing; on an agent in any other status it sets the status to stopped and
\* clears current_task
C20_StopPrecondition ==
    [][\A i \in ActedIds : DashboardOn(i, "stop") =>
          /\ _agents[i].status = "stopped" =>
                (sresp'.status = 400 /\ _agents' = _agents)
          /\ _agents[i].status # "stopped" =>
                (_agents'[i].status = "stopped" /\ _agents'[i].current_task = None)
      ]_vars

\* C21: restart, from any status and any counters, sets status to running,
\* resets tasks_completed to 0 and clears current_task
C21_RestartResets ==
    [][\A i \in ActedIds : DashboardOn(i, "restart") =>
          /\ sresp'.status = 200
          /\ _agents'[i].status = "running"
          /\ _agents'[i].tasks_completed = 0
          /\ _agents'[i].current_task = None
      ]_vars

\* the step is the action endpoint asked about i
DashboardAsked(i) == sreq'.op = "action" /\ sreq'.id = i

C23_CountersNonNegative ==
    \A i \in DOMAIN _agents :
        /\ _agents[i].tasks_pending >= 0
        /\ _agents[i].tasks_completed >= 0
        /\ _agents[i].tasks_failed >= 0

\* a task_completed came for an agent with no pending task
C23_Witness ==
    /\ sreq.op = "task_completed"
    /\ sreq.id \in DOMAIN _agents
    /\ sreq.arg.pending = 0
    /\ _agents[sreq.id].tasks_pending = 0
    /\ _agents[sreq.id].tasks_completed + _agents[sreq.id].tasks_failed > 0

---------------------------------------------------------------------------
(* The dashboard's WebSocket side: ConnectionManager and websocket_endpoint *)
(* of src/web/routers/agents.py                                            *)
(*                                                                         *)
(* A coroutine runs from one suspension to the next as one step.  The      *)
(* awaits that suspend are websocket.accept(), websocket.send_json(...)    *)
(* and websocket.receive_text(); the manager's lock is never held across   *)
(* one of them, so `async with self._lock` does not suspend.  A message is *)
(* on the wire of a WebSocket in the order in which the send_json calls    *)
(* were made.  socket[c] is "none" before the client connects, "accepting" *)
(* while the endpoint awaits accept(), "open" while it awaits              *)
(* receive_text() and the client reads, "stalled" when the client no       *)
(* longer reads (a send on it never completes), "broken" when the client   *)
(* is gone and the endpoint has not been resumed yet (a send on it         *)
(* raises), "done" when the endpoint has returned.                         *)
(***************************************************************************)

WsEvent(op, c, arg) == [op |-> op, ws |-> c, arg |-> arg]

\* the texts a client sends
Texts == {"{\"type\": \"ping\"}", "{\"type\": \"subscribe\"}", "invalid json {{{", "[1, 2]"}

\* json.loads on those: a dict (with what .get("type") gives), another JSON
\* value, or JSONDecodeError
JsonLoads(text) ==
    CASE text = "{\"type\": \"ping\"}" -> [kind |-> "dict", type |-> "ping"]
      [] text = "{\"type\": \"subscribe\"}" -> [kind |-> "dict", type |-> "subscribe"]
      [] text = "[1, 2]" -> [kind |-> "list", type |-> None]
      [] OTHER -> [kind |-> "JSONDecodeError", type |-> None]

\* the elements of a list
Range(seq) == {seq[k] : k \in 1..Len(seq)}

disconnect_pop(connections, websocket) ==
    IF connections = <<>> THEN connections
    ELSE SubSeq(connections, 1, Len(connections) - 1)

\* ConnectionManager.disconnect: list.remove when the WebSocket is in the list
disconnect(connections, websocket) ==
    IF websocket \in Range(connections)
    THEN LET k == CHOOSE k \in 1..Len(connections) :
                     /\ connections[k] = websocket
                     /\ \A j \in 1..(k - 1) : connections[j] # websocket
         IN SubSeq(connections, 1, k - 1) \o SubSeq(connections, k + 1, Len(connections))
    ELSE connections

\* the snapshot message send_snapshot builds
Snapshot(agents_now) == [type |-> "snapshot", agents |-> agents_now]

Pong == [type |-> "pong"]

broadcast_first(connections, n) ==
    IF connections = <<>> THEN <<>> ELSE << <<connections[1], n>> >>

\* ConnectionManager.broadcast of message n: one _send_to_client task for
\* each connection in the copy of the list, created in the list's order
broadcast(connections, n) == [k \in 1..Len(connections) |-> <<connections[k], n>>]

\* a task of the event loop: the broadcast of message n, or the send of
\* message n to a WebSocket
BroadcastTask(n) == <<"broadcast", "", n>>

SendTask(c, n) == <<"_send_to_client", c, n>>

\* a client opens /api/agents/ws: the endpoint starts and awaits accept()
ws_connect(c) ==
    /\ socket[c] = "none"
    /\ socket' = [socket EXCEPT ![c] = "accepting"]
    /\ wsev' = WsEvent("connect", c, None)
    /\ UNCHANGED <<active_connections, wire, messages, btasks, stasks, ready>>

\* what accept() and the send of the snapshot end in
AcceptOutcomes == {"accept raises", "sent", "send raises", "send stalls"}

ws_accepted_unregistered(c, outcome) ==
    /\ socket[c] = "accepting"
    /\ wsev' = WsEvent("accepted", c, outcome)
    /\ UNCHANGED <<messages, btasks, stasks, ready, active_connections>>
    /\ CASE outcome = "sent" ->
              /\ socket' = [socket EXCEPT ![c] = "open"]
              /\ wire' = [wire EXCEPT ![c] = <<Snapshot(_agents)>>]
         [] outcome = "send stalls" ->
              /\ socket' = [socket EXCEPT ![c] = "stalled"]
              /\ UNCHANGED wire
         [] OTHER ->
              /\ socket' = [socket EXCEPT ![c] = "done"]
              /\ UNCHANGED wire

ws_accepted_silent(c, outcome) ==
    /\ socket[c] = "accepting"
    /\ wsev' = WsEvent("accepted", c, outcome)
    /\ UNCHANGED <<messages, btasks, stasks, ready, wire>>
    /\ CASE outcome = "accept raises" ->
              /\ socket' = [socket EXCEPT ![c] = "done"]
              /\ UNCHANGED active_connections
         [] OTHER ->
              /\ socket' = [socket EXCEPT ![c] = "open"]
              /\ active_connections' = Append(active_connections, c)

\* accept() is over: connect appends the WebSocket, send_snapshot reads the
\* store and sends; an exception of accept() leaves the endpoint, one of the
\* send is caught by the endpoint, which disconnects and returns
ws_accepted(c, outcome) ==
    /\ socket[c] = "accepting"
    /\ wsev' = WsEvent("accepted", c, outcome)
    /\ UNCHANGED <<messages, btasks, stasks, ready>>
    /\ CASE outcome = "accept raises" ->
              /\ socket' = [socket EXCEPT ![c] = "done"]
              /\ UNCHANGED <<active_connections, wire>>
         [] outcome = "sent" ->
              /\ socket' = [socket EXCEPT ![c] = "open"]
              /\ active_connections' = Append(active_connections, c)
              /\ wire' = [wire EXCEPT ![c] = <<Snapshot(_agents)>>]
         [] outcome = "send stalls" ->
              /\ socket' = [socket EXCEPT ![c] = "stalled"]
              /\ active_connections' = Append(active_connections, c)
              /\ UNCHANGED wire
         [] OTHER ->
              /\ socket' = [socket EXCEPT ![c] = "done"]
              /\ active_connections' = disconnect(Append(active_connections, c), c)
              /\ UNCHANGED wire

\* receive_text() returns a text: json.loads, message.get("type"), the pong
\* for a ping; JSONDecodeError is logged, any other exception leaves the loop
\* through `except Exception`, which disconnects
ws_text(c, text) ==
    /\ socket[c] = "open"
    /\ wsev' = WsEvent("text", c, text)
    /\ UNCHANGED <<messages, btasks, stasks, ready>>
    /\ LET message == JsonLoads(text) IN
       CASE message.kind = "JSONDecodeError" ->
              UNCHANGED <<socket, active_connections, wire>>
         [] message.kind = "dict" /\ message.type = "ping" ->
              /\ Len(wire[c]) < MaxWire
              /\ wire' = [wire EXCEPT ![c] = Append(@, Pong)]
              /\ UNCHANGED <<socket, active_connections>>
         [] message.kind = "dict" /\ message.type # "ping" ->
              UNCHANGED <<socket, active_connections, wire>>
         [] OTHER ->
              /\ socket' = [socket EXCEPT ![c] = "done"]
              /\ active_connections' = disconnect(active_connections, c)
              /\ UNCHANGED wire

\* the client stops reading
ws_stall(c) ==
    /\ socket[c] = "open"
    /\ socket' = [socket EXCEPT ![c] = "stalled"]
    /\ wsev' = WsEvent("stall", c, None)
    /\ UNCHANGED <<active_connections, wire, messages, btasks, stasks, ready>>

\* the client goes away
ws_break(c) ==
    /\ socket[c] = "open"
    /\ socket' = [socket EXCEPT ![c] = "broken"]
    /\ wsev' = WsEvent("break", c, None)
    /\ UNCHANGED <<active_connections, wire, messages, btasks, stasks, ready>>

\* receive_text() raises WebSocketDisconnect: the endpoint disconnects and
\* returns
ws_disconnected(c) ==
    /\ socket[c] = "broken"
    /\ socket' = [socket EXCEPT ![c] = "done"]
    /\ active_connections' = disconnect(active_connections, c)
    /\ wsev' = WsEvent("disconnected", c, None)
    /\ UNCHANGED <<wire, messages, btasks, stasks, ready>>

\* the event loop runs the tasks that are ready in the order in which they
\* were created (call_soon is first in, first out)
NextReady(task) == ready # <<>> /\ Head(ready) = task

create_task_first(queue, created) == created \o queue

\* asyncio.create_task: the new tasks go behind the ones that are ready
create_task(queue, created) == queue \o created

\* a _send_to_client task runs: send_json delivers, or raises and the task
\* disconnects the WebSocket; on a stalled WebSocket the task waits in
\* send_json from then on
_send_to_client(c, n) ==
    /\ <<c, n>> \in stasks
    /\ NextReady(SendTask(c, n))
    /\ ready' = Tail(ready)
    /\ UNCHANGED <<socket, messages, btasks>>
    /\ CASE socket[c] = "open" ->
              /\ wire' = [wire EXCEPT ![c] = Append(@, messages[n])]
              /\ stasks' = stasks \ {<<c, n>>}
              /\ wsev' = WsEvent("sent", c, n)
              /\ UNCHANGED active_connections
         [] socket[c] = "stalled" ->
              /\ wsev' = WsEvent("send waits", c, n)
              /\ UNCHANGED <<wire, stasks, active_connections>>
         [] OTHER ->
              /\ active_connections' = disconnect(active_connections, c)
              /\ stasks' = stasks \ {<<c, n>>}
              /\ wsev' = WsEvent("send failed", c, n)
              /\ UNCHANGED wire

\* the task execute_agent_action created runs broadcast
broadcast_task(n) ==
    /\ n \in btasks
    /\ NextReady(BroadcastTask(n))
    /\ btasks' = btasks \ {n}
    /\ LET created == broadcast(active_connections, n) IN
           /\ stasks' = stasks \cup Range(created)
           /\ ready' = create_task(Tail(ready),
                                   [k \in 1..Len(created) |->
                                       SendTask(created[k][1], created[k][2])])
    /\ wsev' = WsEvent("broadcast", "", n)
    /\ UNCHANGED <<active_connections, socket, wire, messages>>

schedule_before(handed, agents_before) ==
    [handed EXCEPT !.agent = agents_before[handed.agent.id]]

\* asyncio.create_task(connection_manager.broadcast(...)): the message the
\* handler built
schedule(handed, agents_before) == handed

\* POST /api/agents/{agent_id}/action with clients connected: the handler,
\* and the broadcast task it creates when it succeeds
ws_action(agent_id, act, parameters) ==
    /\ execute_agent_action(agent_id, act, parameters)
    /\ IF sresp'.status # 200
       THEN /\ wsev' = WsEvent("action", "", 0)
            /\ UNCHANGED <<messages, btasks, ready>>
       ELSE /\ wsev' = WsEvent("action", "", Len(messages) + 1)
            /\ messages' = Append(messages, schedule(sresp'.broadcast, _agents))
            /\ btasks' = btasks \cup {Len(messages) + 1}
            /\ ready' = create_task(ready, <<BroadcastTask(Len(messages) + 1)>>)
    /\ UNCHANGED <<active_connections, socket, wire, stasks>>

\* the store gets the record the actions are about
ws_ensure(agent_id, name) ==
    /\ agent_id \notin DOMAIN _agents
    /\ ensure_agent(agent_id, name)
    /\ wsev' = WsEvent("ensure_agent", "", None)
    /\ UNCHANGED <<active_connections, socket, wire, messages, btasks, stasks, ready>>

\* the manager and the worker are other processes
DashboardOnly == UNCHANGED <<managerVars, workerVars, cleanerVars, otherVars>>

StoreKept == UNCHANGED storeVars

\* the actions sent while clients are connected
WsActions == {"stop", "archive"}

SendStep(c, n) == _send_to_client(c, n) /\ StoreKept /\ DashboardOnly

BroadcastStep(n) == broadcast_task(n) /\ StoreKept /\ DashboardOnly

DisconnectedStep(c) == ws_disconnected(c) /\ StoreKept /\ DashboardOnly

NextWs ==
    \/ (\E c \in Clients : ws_connect(c)) /\ StoreKept /\ DashboardOnly
    \/ (\E c \in Clients, outcome \in AcceptOutcomes : ws_accepted(c, outcome))
            /\ StoreKept /\ DashboardOnly
    \/ (\E c \in Clients, text \in Texts : ws_text(c, text)) /\ StoreKept /\ DashboardOnly
    \/ (\E c \in Clients : ws_stall(c)) /\ StoreKept /\ DashboardOnly
    \/ (\E c \in Clients : ws_break(c)) /\ StoreKept /\ DashboardOnly
    \/ \E c \in Clients : DisconnectedStep(c)
    \/ \E c \in Clients, n \in 1..MaxMessages : SendStep(c, n)
    \/ \E n \in 1..MaxMessages : BroadcastStep(n)
    \/ (\E agent_id \in ActedIds, act \in WsActions :
            Len(messages) < MaxMessages /\ ws_action(agent_id, act, {}))
            /\ DashboardOnly
    \/ (\E agent_id \in ActedIds : ws_ensure(agent_id, <<"Planner Agent">>)) /\ DashboardOnly

SpecWs == Init /\ [][NextWs]_vars

\* the event loop runs every task that is ready: a created send or broadcast
\* task, and the endpoint whose receive_text() has raised
SpecWsLive ==
    /\ SpecWs
    /\ \A c \in Clients, n \in 1..MaxMessages : WF_vars(SendStep(c, n))
    /\ \A n \in 1..MaxMessages : WF_vars(BroadcastStep(n))
    /\ \A c \in Clients : WF_vars(DisconnectedStep(c))

---------------------------------------------------------------------------
(* Claims C24..C28 *)

\* message n is on the wire of c
Delivered(c, n) ==
    /\ n \in DOMAIN messages
    /\ \E k \in 1..Len(wire[c]) : wire[c][k] = messages[n]

\* the step is a run of broadcast for message n
BroadcastOn(n) == wsev'.op = "broadcast" /\ wsev'.arg = n

\* the step is a run of the send task of c, delivering or failing
SendOn(c) == wsev'.op \in {"sent", "send failed"} /\ wsev'.ws = c

\* the step leaves everything of subscriber d as it was
SubscriberKept(d) ==
    /\ wire'[d] = wire[d]
    /\ socket'[d] = socket[d]
    /\ (d \in Range(active_connections')) = (d \in Range(active_connections))
    /\ \A n \in 1..MaxMessages : (<<d, n>> \in stasks') = (<<d, n>> \in stasks)

\* C24: a broadcast only creates one send for each current subscriber and
\* returns, without a message delivered or a subscriber touched; the send of
\* one subscriber, delivered or raising, leaves the sends, the wire and the
\* registration of every other subscriber alone; and every send to a
\* subscriber that reads is delivered, whatever the sends to the others do
C24_BroadcastFanOut ==
    /\ [][ /\ \A n \in 1..MaxMessages : BroadcastOn(n) =>
                /\ stasks' = stasks \cup {<<d, n>> : d \in Range(active_connections)}
                /\ wire' = wire
                /\ socket' = socket
                /\ active_connections' = active_connections
           /\ \A c \in Clients : SendOn(c) =>
                \A d \in Clients \ {c} : SubscriberKept(d) ]_vars
    /\ \A c \in Clients, n \in 1..MaxMessages :
           (<<c, n>> \in stasks /\ socket[c] = "open")
               ~> (Delivered(c, n) \/ socket[c] # "open")

\* a message is delivered to one subscriber while the send of the same
\* message to another one is stuck or has raised
C24_Witness ==
    /\ wsev.op = "sent"
    /\ Delivered(wsev.ws, wsev.arg)
    /\ \E d \in Clients \ {wsev.ws} :
           \/ socket[d] = "stalled" /\ <<d, wsev.arg>> \in stasks
           \/ socket[d] = "done" /\ wire[d] # <<>> /\ ~Delivered(d, wsev.arg)
                /\ <<d, wsev.arg>> \notin stasks /\ d \notin Range(active_connections)

\* the step is a send task of c whose send_json raised
SendFailedOn(c) == wsev'.op = "send failed" /\ wsev'.ws = c

\* the active connections without c, in their order
Without(connections, c) == SelectSeq(connections, LAMBDA d : d # c)

SnapshotOn(c) == wsev'.op = "accepted" /\ wsev'.ws = c /\ wsev'.arg = "sent"

\* C26: on every WebSocket the first message on the wire is a snapshot, and
\* the snapshot the endpoint sends is the only message on the wire then and
\* holds the records the store has at that step, whatever actions and
\* broadcasts ran or are pending while the connection was being accepted
C26_SnapshotFirst ==
    /\ [](\A c \in Clients : wire[c] # <<>> => wire[c][1].type = "snapshot")
    /\ [][\A c \in Clients : SnapshotOn(c) =>
              /\ wire[c] = <<>>
              /\ wire'[c] = <<[type |-> "snapshot", agents |-> _agents]>> ]_vars

\* a connection has the snapshot with the record of the agent first and an
\* agent_updated message, just delivered, after it
C26_Witness ==
    \E c \in Clients :
        /\ Len(wire[c]) >= 2
        /\ wire[c][1].type = "snapshot"
        /\ DOMAIN wire[c][1].agents # {}
        /\ wire[c][2].type = "agent_updated"
        /\ wsev.op = "sent"
        /\ socket[c] = "open"

\* the step is a dashboard action on agent i that succeeded
ActionDone(i) ==
    /\ wsev'.op = "action"
    /\ sreq'.op = "action"
    /\ sreq'.id = i
    /\ sresp'.status = 200

\* C27: a dashboard action that succeeds creates one broadcast task for one
\* new agent_updated message that carries the record of the agent as the
\* action left it; a message, once created, does not change; the broadcast
\* task, when it runs, creates a send of the message for every subscriber
\* connected then; and every broadcast task created runs
C27_ActionBroadcast ==
    /\ [][ /\ \A i \in StoreIds : ActionDone(i) =>
                /\ messages' = Append(messages,
                                      [type |-> "agent_updated", agent |-> _agents'[i]])
                /\ btasks' = btasks \cup {Len(messages) + 1}
                /\ Len(messages) + 1 \notin btasks
           /\ \A n \in DOMAIN messages : messages'[n] = messages[n]
           /\ \A n \in 1..MaxMessages : BroadcastOn(n) =>
                /\ n \in btasks
                /\ \A c \in Range(active_connections) : <<c, n>> \in stasks' ]_vars
    /\ \A n \in 1..MaxMessages : (n \in btasks) ~> (n \notin btasks /\ n \in DOMAIN messages)

\* the agent_updated message of a stop, with the stopped record, has just
\* been delivered to a subscriber
C27_Witness ==
    /\ wsev.op = "sent"
    /\ socket[wsev.ws] = "open"
    /\ LET last == wire[wsev.ws][Len(wire[wsev.ws])] IN
           /\ last.type = "agent_updated"
           /\ last.agent.status = "stopped"
           /\ last.agent = _agents[last.agent.id]

\* the step is the endpoint of c handling a text of the client
TextOn(c) == wsev'.op = "text" /\ wsev'.ws = c

\* C28: whatever text a client sends, the endpoint keeps the connection open
\* and in the active connections; a ping is answered with exactly one pong
\* and any other text with nothing
C28_TextNeverDrops ==
    [][\A c \in Clients : TextOn(c) =>
           /\ socket'[c] = "open"
           /\ c \in Range(active_connections')
           /\ wire'[c] = IF wsev'.arg = "{\"type\": \"ping\"}"
                         THEN Append(wire[c], [type |-> "pong"])
                         ELSE wire[c] ]_vars

\* the actions sent back to back
OrderActions == {"stop", "restart"}

\* the dashboard under actions sent back to back while clients connect, read
\* and go away
NextOrder ==
    \/ (\E c \in Clients : ws_connect(c)) /\ StoreKept /\ DashboardOnly
    \/ (\E c \in Clients, outcome \in AcceptOutcomes \ {"send stalls"} :
            ws_accepted(c, outcome)) /\ StoreKept /\ DashboardOnly
    \/ (\E c \in Clients : ws_break(c)) /\ StoreKept /\ DashboardOnly
    \/ \E c \in Clients : DisconnectedStep(c)
    \/ \E c \in Clients, n \in 1..MaxUpdates : SendStep(c, n)
    \/ \E n \in 1..MaxUpdates : BroadcastStep(n)
    \/ (\E agent_id \in ActedIds, act \in OrderActions :
            Len(messages) < MaxUpdates /\ ws_action(agent_id, act, {}))
            /\ DashboardOnly
    \/ (\E agent_id \in ActedIds : ws_ensure(agent_id, <<"Planner Agent">>)) /\ DashboardOnly

SpecOrder == Init /\ [][NextOrder]_vars

---------------------------------------------------------------------------
(* The registry cleaner: start_registry_cleaner of                         *)
(* src/web/routers/manager.py, the task lifespan of src/web/app.py creates *)
(* at startup and cancels at shutdown                                      *)
(*                                                                         *)
(* Here `now` is in seconds and is followed in steps of the cleaner's      *)
(* interval.  cleaner.state is "none" before the task is created,          *)
(* "scheduled" while the task waits for its first step or sleeps until     *)
(* cleaner.wake, "cancelling" once cancel() was called and the             *)
(* CancelledError has not been thrown into the coroutine yet, "cancelled"  *)
(* when the task has ended with it.  lifespan_at is "created" before       *)
(* startup, "running" at the yield, "stopping" while the finally clause    *)
(* awaits the task, "stopped" when the context manager has returned and    *)
(* "failed" when it has raised.                                            *)
(***************************************************************************)

\* the last second the model follows
Horizon == MaxSleeps * CleanerInterval

\* a step of lifespan: not a request
Lifespan(step) ==
    /\ req' = Request(step, "", <<>>, {}, 0)
    /\ resp' = NoResponse
    /\ sent' = <<>>
    /\ UNCHANGED <<REGISTERED_SERVICES, now, lastWrite>>

\* startup: asyncio.create_task(start_registry_cleaner()) and the yield; when
\* the import or the creation raises, the exception is logged and the manager
\* runs without a cleaner
lifespan_startup(outcome) ==
    /\ lifespan_at = "created"
    /\ lifespan_at' = "running"
    /\ cleaner' = IF outcome = "created"
                  THEN [state |-> "scheduled", wake |-> now]
                  ELSE cleaner
    /\ Lifespan("startup")

start_registry_cleaner_swapped ==
    /\ cleaner.state = "scheduled"
    /\ now >= cleaner.wake
    /\ _purge_stale(CleanerInterval)
    /\ cleaner' = [state |-> "scheduled", wake |-> now + CleanerTtl]
    /\ UNCHANGED lifespan_at

\* one turn of the loop of start_registry_cleaner: _purge_stale(ttl), then
\* asyncio.sleep(interval)
start_registry_cleaner ==
    /\ cleaner.state = "scheduled"
    /\ now >= cleaner.wake
    /\ _purge_stale(CleanerTtl)
    /\ cleaner' = [state |-> "scheduled", wake |-> now + CleanerInterval]
    /\ UNCHANGED lifespan_at

lifespan_shutdown_no_await ==
    /\ lifespan_at = "running"
    /\ IF cleaner.state = "scheduled"
       THEN cleaner' = [cleaner EXCEPT !.state = "cancelling"]
       ELSE UNCHANGED cleaner
    /\ lifespan_at' = "stopped"
    /\ Lifespan("shutdown")

\* shutdown, the finally clause: task.cancel() and `await task` when there is
\* a task that is not done, nothing otherwise
lifespan_shutdown ==
    /\ lifespan_at = "running"
    /\ IF cleaner.state = "scheduled"
       THEN /\ cleaner' = [cleaner EXCEPT !.state = "cancelling"]
            /\ lifespan_at' = "stopping"
       ELSE /\ UNCHANGED cleaner
            /\ lifespan_at' = "stopped"
    /\ Lifespan("shutdown")

\* the task's next step: CancelledError is thrown into the coroutine, at the
\* sleep or before its first statement, and ends the task
cleaner_cancelled ==
    /\ cleaner.state = "cancelling"
    /\ cleaner' = [cleaner EXCEPT !.state = "cancelled"]
    /\ UNCHANGED lifespan_at
    /\ Lifespan("cancelled")

\* `await task` raises the task's CancelledError into the finally clause,
\* where `except BaseException: pass` drops it
lifespan_finished ==
    /\ lifespan_at = "stopping"
    /\ cleaner.state = "cancelled"
    /\ lifespan_at' = "stopped"
    /\ UNCHANGED cleaner
    /\ Lifespan("finished")

\* the cleaner's interval passes
CleanerTick ==
    /\ now + CleanerInterval <= Horizon
    /\ now' = now + CleanerInterval
    /\ req' = Request("tick", "", <<>>, {}, 0)
    /\ resp' = NoResponse
    /\ sent' = <<>>
    /\ UNCHANGED <<REGISTERED_SERVICES, lastWrite, cleaner, lifespan_at>>

\* the manager serves requests between startup and shutdown
ManagerUp == lifespan_at = "running"

\* a request that writes registered_at is followed while the purge of what it
\* writes is before Horizon
Followed == now + CleanerTtl + CleanerInterval <= Horizon

CleanerOnly == UNCHANGED <<workerVars, storeVars, wsVars, otherVars>>

CleanerKept == UNCHANGED cleanerVars

CleanerRunStep == start_registry_cleaner /\ CleanerOnly

CleanerTickStep == CleanerTick /\ CleanerOnly

CancelledStep == cleaner_cancelled /\ CleanerOnly

FinishedStep == lifespan_finished /\ CleanerOnly

NextCleaner ==
    \/ (\E outcome \in {"created", "raises"} : lifespan_startup(outcome)) /\ CleanerOnly
    \/ CleanerRunStep
    \/ lifespan_shutdown /\ CleanerOnly
    \/ CancelledStep
    \/ FinishedStep
    \/ CleanerTickStep
    \/ (\E agent_id \in RegistryIds : ManagerUp /\ Followed /\ register_service(agent_id, U1, {}))
            /\ CleanerKept /\ CleanerOnly
    \/ (\E agent_id \in RegistryIds : ManagerUp /\ Followed /\ heartbeat(agent_id, <<>>, {}))
            /\ CleanerKept /\ CleanerOnly
    \/ (\E agent_id \in RegistryIds : ManagerUp /\ unregister_service(agent_id))
            /\ CleanerKept /\ CleanerOnly

SpecCleaner == Init /\ [][NextCleaner]_vars

\* the event loop runs the cleaner task when its sleep is over and when it
\* is cancelled, and resumes the finally clause when the task has ended;
\* time passes
SpecCleanerLive ==
    /\ SpecCleaner
    /\ WF_vars(CleanerRunStep)
    /\ WF_vars(CleanerTickStep)
    /\ WF_vars(CancelledStep)
    /\ WF_vars(FinishedStep)

---------------------------------------------------------------------------
(* Claims C29, C30 *)

\* the step is a turn of the cleaner's loop
CleanerPurge == req'.op = "purge"

\* the last request renewed the entry of i
Renewed(i) == req.op \in {"register", "heartbeat"} /\ req.id = i /\ resp.status = 200

\* the step is a register or heartbeat request for i that was accepted
Renewing(i) ==
    req'.op \in {"register", "heartbeat"} /\ req'.id = i /\ resp'.status = 200

\* C29: a register or heartbeat request stamps the entry with the time of the
\* request; a turn of the cleaner removes an entry only when more than the
\* TTL has passed since that time and keeps every other entry as it is, so an
\* entry renewed at intervals of at most the TTL is never removed by it; and
\* while the cleaner runs, an entry is eventually removed unless a request
\* renews it
C29_CleanerPurgesUnrenewed ==
    /\ [][\A i \in RegistryIds :
              /\ Renewing(i) =>
                    /\ i \in DOMAIN REGISTERED_SERVICES'
                    /\ REGISTERED_SERVICES'[i].registered_at = now
              /\ (CleanerPurge /\ i \in DOMAIN REGISTERED_SERVICES) =>
                    IF now - REGISTERED_SERVICES[i].registered_at > CleanerTtl
                    THEN i \notin DOMAIN REGISTERED_SERVICES'
                    ELSE /\ i \in DOMAIN REGISTERED_SERVICES'
                         /\ REGISTERED_SERVICES'[i] = REGISTERED_SERVICES[i] ]_vars
    /\ \A i \in RegistryIds :
           (i \in DOMAIN REGISTERED_SERVICES /\ cleaner.state = "scheduled")
               ~> \/ i \notin DOMAIN REGISTERED_SERVICES
                  \/ Renewed(i)
                  \/ cleaner.state # "scheduled"

\* a turn of the cleaner has removed an entry that was not renewed and has
\* kept one that was written exactly the TTL ago, later than the cleaner's
\* first turn
C29_Witness ==
    /\ req.op = "purge"
    /\ resp.val # {}
    /\ \E i \in DOMAIN REGISTERED_SERVICES :
           /\ now - REGISTERED_SERVICES[i].registered_at = CleanerTtl
           /\ REGISTERED_SERVICES[i].registered_at > 0

\* C30: when the shutdown of the manager has completed, the cleaner task, if
\* one was created, has ended with its cancellation and lifespan has returned
\* without raising; the cleaner purges only while the manager runs, never
\* once shutdown has begun; and a shutdown that has begun completes
C30_CleanerCancelledAtShutdown ==
    /\ [](lifespan_at = "stopped" => cleaner.state \in {"cancelled", "none"})
    /\ [](lifespan_at # "failed")
    /\ [][CleanerPurge => (lifespan_at = "running" /\ lifespan_at' = "running")]_vars
    /\ (lifespan_at = "stopping") ~> (lifespan_at = "stopped")

\* shutdown has completed with the task cancelled while the registry holds an
\* entry older than the TTL, which a further turn of the cleaner would remove
C30_Witness ==
    /\ lifespan_at = "stopped"
    /\ cleaner.state = "cancelled"
    /\ \E i \in DOMAIN REGISTERED_SERVICES :
           now - REGISTERED_SERVICES[i].registered_at > CleanerTtl

---------------------------------------------------------------------------
(* The worker's lifespan: create_app._lifespan of src/agents/mcp_service.py *)
(*                                                                         *)
(* worker_lifespan.at is "created" before startup, "running" at the yield, *)
(* "stopping" while the finally clause awaits the heartbeat task,          *)
(* "returned" when the context manager has returned and "raised" when an   *)
(* exception has left it (worker_lifespan.raised).  _heartbeat_task is     *)
(* None or the state of the task: "scheduled" (waiting for its first step, *)
(* for the answer of a post or for the end of its sleep), "cancelling"     *)
(* (cancel() called, CancelledError not thrown into the coroutine yet),    *)
(* "cancelled".  posted lists the requests posted to the manager, with     *)
(* whether the post raised (manager unreachable, timeout).                 *)
(***************************************************************************)

\* the manager_url create_app is given
ManagerUrls == {None, "http://manager"}

\* client.post(...) returns or raises
PostOutcomes == {"answered", "raises"}

Post(op, outcome) == [op |-> op, id |-> "planner", outcome |-> outcome]

\* the exceptions a handler `except Exception` catches: asyncio.CancelledError
\* is a BaseException and is not one of them
ExceptException == {"Exception", "httpx.HTTPError", "OSError"}

\* startup: with a manager URL the register post, whose exception is printed
\* and dropped, and the creation of the heartbeat task; then the yield
_lifespan_startup(mgr, outcome) ==
    /\ worker_lifespan.at = "created"
    /\ worker_lifespan' = [worker_lifespan EXCEPT !.at = "running", !.mgr = mgr]
    /\ IF mgr # None
       THEN /\ posted' = Append(posted, Post("register", outcome))
            /\ _heartbeat_task' = "scheduled"
       ELSE UNCHANGED <<posted, _heartbeat_task>>

\* one turn of _heartbeat_loop: the post, whose exception is dropped, and the
\* sleep
_heartbeat_loop(outcome) ==
    /\ _heartbeat_task = "scheduled"
    /\ Len(posted) <= MaxBeats
    /\ posted' = Append(posted, Post("heartbeat", outcome))
    /\ UNCHANGED <<_heartbeat_task, worker_lifespan>>

\* shutdown, the finally clause up to `await task`; without a task, up to its
\* end (no manager URL: nothing to unregister)
_lifespan_shutdown ==
    /\ worker_lifespan.at = "running"
    /\ IF _heartbeat_task # None
       THEN /\ _heartbeat_task' = "cancelling"
            /\ worker_lifespan' = [worker_lifespan EXCEPT !.at = "stopping"]
       ELSE /\ UNCHANGED _heartbeat_task
            /\ worker_lifespan' = [worker_lifespan EXCEPT !.at = "returned"]
    /\ UNCHANGED posted

\* the heartbeat task's next step: CancelledError is thrown into the
\* coroutine, at the post, at the sleep or before its first statement; the
\* loop's `except Exception` does not catch it and the task ends cancelled
_heartbeat_cancelled ==
    /\ _heartbeat_task = "cancelling"
    /\ _heartbeat_task' = "cancelled"
    /\ UNCHANGED <<worker_lifespan, posted>>

\* the finally clause from `await task` on: the await raises the task's
\* CancelledError; when `except Exception: pass` catches what the await
\* raises, the unregister post follows, whose exception is dropped; what it
\* does not catch leaves the inner and the outer try and the context manager
_lifespan_finally(outcome) ==
    /\ worker_lifespan.at = "stopping"
    /\ _heartbeat_task = "cancelled"
    /\ UNCHANGED _heartbeat_task
    /\ IF "CancelledError" \in ExceptException
       THEN /\ posted' = Append(posted, Post("unregister", outcome))
            /\ worker_lifespan' = [worker_lifespan EXCEPT !.at = "returned"]
       ELSE /\ UNCHANGED posted
            /\ worker_lifespan' =
                   [worker_lifespan EXCEPT !.at = "raised", !.raised = "CancelledError"]

LifeOnly ==
    UNCHANGED <<managerVars, workerVars, storeVars, wsVars, cleanerVars, monitorVars, coordVars, raceVars, lockVars>>

NextLife ==
    \/ (\E mgr \in ManagerUrls, outcome \in PostOutcomes : _lifespan_startup(mgr, outcome))
            /\ LifeOnly
    \/ (\E outcome \in PostOutcomes : _heartbeat_loop(outcome)) /\ LifeOnly
    \/ _lifespan_shutdown /\ LifeOnly
    \/ _heartbeat_cancelled /\ LifeOnly
    \/ (\E outcome \in PostOutcomes : _lifespan_finally(outcome)) /\ LifeOnly

SpecLife == Init /\ [][NextLife]_vars

---------------------------------------------------------------------------
(* The two tracks side by side: the registry and the forwarder of          *)
(* src/web/routers/manager.py and the dashboard of                         *)
(* src/web/routers/agents.py in one manager process                        *)
(***************************************************************************)

\* the worker answers 200, or the connection fails
TrackOutcomes == {o \in Outcomes : o.status \in {0, 200} /\ o.text = Text("")}

\* what the handlers of manager.py leave alone: they use REGISTERED_SERVICES,
\* the config and httpx, and nothing of agents.py
ManagerFrame == UNCHANGED <<workerVars, storeVars, wsVars, cleanerVars, otherVars>>

ActionFrame_Unregisters ==
    /\ UNCHANGED <<workerVars, cleanerVars, otherVars, now, req, resp, sent, lastWrite>>
    /\ REGISTERED_SERVICES' =
           IF sreq'.arg = "stop" /\ sresp'.status = 200
           THEN Pop(REGISTERED_SERVICES, sreq'.id)
           ELSE REGISTERED_SERVICES

\* what execute_agent_action leaves alone: it uses agent_store and
\* connection_manager, and nothing of manager.py
ActionFrame == UNCHANGED <<managerVars, workerVars, cleanerVars, otherVars>>

NextTracks ==
    \/ register_service("planner", U1, {}) /\ ManagerFrame
    \/ unregister_service("planner") /\ ManagerFrame
    \/ heartbeat("planner", <<>>, M1) /\ ManagerFrame
    \/ _purge_stale(0) /\ ManagerFrame
    \/ (\E outcome \in TrackOutcomes : execute_on_agent("planner", outcome)) /\ ManagerFrame
    \/ (\E outcome \in TrackOutcomes : action_on_agent("planner", outcome)) /\ ManagerFrame
    \/ (\E outcome \in TrackOutcomes : logs_on_agent("planner", outcome)) /\ ManagerFrame
    \/ (\E outcome \in TrackOutcomes : status_on_agent("planner", outcome)) /\ ManagerFrame
    \/ (\E agent_id \in ActedIds, act \in WsActions :
            Len(messages) < MaxMessages /\ ws_action(agent_id, act, {}))
            /\ ActionFrame
    \/ (\E agent_id \in ActedIds : ws_ensure(agent_id, <<"Planner Agent">>)) /\ DashboardOnly
    \/ (\E c \in Clients : ws_connect(c)) /\ StoreKept /\ DashboardOnly
    \/ (\E c \in Clients : ws_accepted(c, "sent")) /\ StoreKept /\ DashboardOnly
    \/ \E n \in 1..MaxMessages : BroadcastStep(n)
    \/ \E c \in Clients, n \in 1..MaxMessages : SendStep(c, n)

SpecTracks == Init /\ [][NextTracks]_vars

---------------------------------------------------------------------------
(* The alerts of MonitoringService, src/orchestration/monitoring.py        *)
(*                                                                         *)
(* alerts is the list self.alerts; an Alert object is named by its place   *)
(* in the list.  wall counts ticks of the process's clock, TicksPerSecond  *)
(* of them to the second: time.time() and datetime.now() read it, int()    *)
(* keeps the whole seconds.  No alert handler is installed (__init__).     *)
(***************************************************************************)

\* the ticks in one second of time.time()
TicksPerSecond == 2

Components == {"system_cpu", "test_component"}

\* f"{component}_{int(time.time())}": the component and the whole seconds
AlertId(component, t) == <<component, t \div TicksPerSecond>>

\* the ids a caller may pass to resolve_alert: those of the alerts it was
\* returned, and one no alert has
AlertIds == {alerts[k].id : k \in DOMAIN alerts} \cup {<<"none", 0>>}

\* create_alert: a new Alert at the end of the list; the call returns it
create_alert(severity, message, component) ==
    /\ Len(alerts) < MaxAlerts
    /\ alerts' = Append(alerts,
                        [id |-> AlertId(component, wall),
                         severity |-> severity,
                         message |-> message,
                         component |-> component,
                         timestamp |-> wall,
                         resolved |-> FALSE,
                         resolution_time |-> <<>>])
    /\ mreq' = [op |-> "create_alert", alert_id |-> AlertId(component, wall),
                result |-> Len(alerts) + 1]
    /\ UNCHANGED wall

\* resolve_alert: the first alert of the list with this id that is not
\* resolved is marked resolved, and True is returned; False when there is none
resolve_alert(alert_id) ==
    LET hits == {k \in DOMAIN alerts : alerts[k].id = alert_id /\ ~alerts[k].resolved}
    IN  /\ IF hits # {}
           THEN LET k == CHOOSE h \in hits : \A other \in hits : h <= other
                IN  /\ alerts' = [alerts EXCEPT ![k].resolved = TRUE,
                                                ![k].resolution_time = <<wall>>]
                    /\ mreq' = [op |-> "resolve_alert", alert_id |-> alert_id, result |-> TRUE]
           ELSE /\ UNCHANGED alerts
                /\ mreq' = [op |-> "resolve_alert", alert_id |-> alert_id, result |-> FALSE]
        /\ UNCHANGED wall

\* get_active_alerts: the alerts not resolved, in the order of the list
get_active_alerts ==
    SelectSeq([k \in DOMAIN alerts |-> k], LAMBDA k : ~alerts[k].resolved)

\* the clock of the monitoring process advances
MonitorTick ==
    /\ wall < MaxWall
    /\ wall' = wall + 1
    /\ mreq' = [op |-> "tick", alert_id |-> <<>>, result |-> 0]
    /\ UNCHANGED alerts

MonitorOnly ==
    UNCHANGED <<managerVars, workerVars, storeVars, wsVars, cleanerVars, lifeVars, coordVars, raceVars, lockVars>>

NextMonitor ==
    \/ (\E component \in Components : create_alert("warning", "Test alert message", component))
            /\ MonitorOnly
    \/ (\E alert_id \in AlertIds : resolve_alert(alert_id)) /\ MonitorOnly
    \/ MonitorTick /\ MonitorOnly

SpecMonitor == Init /\ [][NextMonitor]_vars

---------------------------------------------------------------------------
(* The coordinator: AgentCoordinator.execute_workflow of                   *)
(* src/orchestration/coordinator.py                                        *)
(*                                                                         *)
(* A workflow (a dict keyed by agent type, in insertion order) is the      *)
(* sequence of its steps.  execute_workflow is synchronous: the model      *)
(* stops it only where it calls an agent, whose execute returns or raises. *)
(* workflow.at is "idle" before the first call, "calling" while            *)
(* agent.execute of step workflow.k runs (attempt workflow.attempt),       *)
(* "returned" after execute_workflow has returned; workflow.calls lists    *)
(* the agent calls made, with their outcomes.  With steps keyed by         *)
(* AgentType nothing but an agent raises, so the general except clause of  *)
(* execute_workflow is never entered.                                      *)
(***************************************************************************)

AgentTypes == {"planner", "executor", "reviewer"}

WorkflowStep(agent_type, depends_on, retry_count) ==
    [agent_type |-> agent_type, depends_on |-> depends_on, retry_count |-> retry_count]

\* Planner -> Executor -> Reviewer
create_standard_workflow ==
    <<WorkflowStep("planner", {}, 2),
      WorkflowStep("executor", {"planner"}, 1),
      WorkflowStep("reviewer", {"executor"}, 2)>>

\* the retry counts of custom steps; with a negative one no attempt is made
RetryCounts == -1..MaxRetry

\* custom_steps: None, or steps in an order and with dependencies of the
\* caller's choice
CustomSteps ==
    {<<>>}
    \cup {<<WorkflowStep("executor", {"planner"}, r1), WorkflowStep("planner", {}, r2)>> :
              r1 \in RetryCounts, r2 \in RetryCounts}
    \cup {<<WorkflowStep("planner", {}, r1), WorkflowStep("reviewer", {"executor"}, r2)>> :
              r1 \in RetryCounts, r2 \in RetryCounts}
    \cup {<<WorkflowStep("planner", {}, r1), WorkflowStep("executor", {}, r2)>> :
              r1 \in RetryCounts, r2 \in RetryCounts}
    \cup {<<WorkflowStep("executor", {"executor"}, r1)>> : r1 \in RetryCounts}

\* agent.execute(parameters) returns a result or raises an exception
ExecuteOutcomes == {"returns", "raises"}

DependenciesMet_Always(step, completed_steps) == TRUE

\* all(dep in completed_steps for dep in dependencies)
DependenciesMet(step, completed_steps) ==
    \A dep \in step.depends_on : dep \in completed_steps

\* the finally clause and what precedes it: a running execution is
\* completed, the execution is appended to the history and returned
Finish(ex, w) ==
    LET done == IF ex.state = "running" THEN [ex EXCEPT !.state = "completed"] ELSE ex
    IN  /\ execution' = done
        /\ execution_history' = Append(execution_history, done)
        /\ workflow' = [w EXCEPT !.at = "returned"]

\* the for loop of execute_workflow from step k on, up to the next call of
\* an agent: past the last step the loop ends; a step whose dependencies are
\* not all completed, or that allows no attempt, fails the execution
Proceed(ex, w, k) ==
    IF k > Len(w.steps)
    THEN Finish(ex, [w EXCEPT !.k = k])
    ELSE LET step == w.steps[k] IN
         IF ~DependenciesMet(step, w.completed_steps)
         THEN Finish([ex EXCEPT !.state = "failed",
                                !.errors = (step.agent_type :> "Dependencias no satisfechas") @@ @],
                     [w EXCEPT !.k = k])
         ELSE IF step.retry_count + 1 <= 0
         THEN Finish([ex EXCEPT !.state = "failed",
                                !.errors = (step.agent_type :> "Fallo despues de intentos") @@ @],
                     [w EXCEPT !.k = k])
         ELSE /\ execution' = ex
              /\ workflow' = [w EXCEPT !.at = "calling", !.k = k, !.attempt = 0]
              /\ UNCHANGED execution_history

\* execute_workflow is called: a new execution, running, and the loop up to
\* the first agent call
execute_workflow(workflow_id, custom_steps) ==
    /\ workflow.at \in {"idle", "returned"}
    /\ workflow.runs < MaxRuns
    /\ LET steps == IF custom_steps = <<>> THEN create_standard_workflow ELSE custom_steps
           ex == [workflow_id |-> workflow_id, state |-> "running",
                  results |-> <<>>, errors |-> <<>>]
           w == [at |-> "calling", steps |-> steps, k |-> 1, attempt |-> 0,
                 completed_steps |-> {}, calls |-> <<>>, runs |-> workflow.runs + 1]
       IN  Proceed(ex, w, 1)

\* _execute_step_with_retry at the return of agent.execute: a result
\* completes the step and the loop goes on; an exception is followed by the
\* next attempt while attempt < retry_count, and fails the step after that
_execute_step_with_retry(outcome) ==
    /\ workflow.at = "calling"
    /\ LET step == workflow.steps[workflow.k]
           called == [workflow EXCEPT
                          !.calls = Append(@, [step |-> step.agent_type, outcome |-> outcome])]
       IN  IF outcome = "returns"
           THEN Proceed([execution EXCEPT
                             !.results = (step.agent_type :> workflow.attempt + 1) @@ @],
                        [called EXCEPT !.completed_steps = @ \cup {step.agent_type}],
                        workflow.k + 1)
           ELSE IF workflow.attempt < step.retry_count
           THEN /\ workflow' = [called EXCEPT !.attempt = @ + 1]
                /\ UNCHANGED <<execution, execution_history>>
           ELSE Finish([execution EXCEPT
                            !.state = "failed",
                            !.errors = (step.agent_type :> "Fallo despues de intentos") @@ @],
                       called)

CoordOnly ==
    UNCHANGED <<managerVars, workerVars, storeVars, wsVars, cleanerVars, lifeVars, monitorVars, raceVars, lockVars>>

NextCoord ==
    \/ (\E workflow_id \in 1..MaxRuns, custom_steps \in CustomSteps :
            execute_workflow(workflow_id, custom_steps)) /\ CoordOnly
    \/ (\E outcome \in ExecuteOutcomes : _execute_step_with_retry(outcome)) /\ CoordOnly

SpecCoord == Init /\ [][NextCoord]_vars

---------------------------------------------------------------------------
(* Dashboard handlers side by side: execute_agent_action,                  *)
(* broadcast_task_added and broadcast_task_completed of                    *)
(* src/web/routers/agents.py, each stopped between its two store calls     *)
(*                                                                         *)
(* A handler awaits get_agent, decides on the record it was given, and     *)
(* awaits update_agent with keyword arguments computed from that record.   *)
(* Each of the two store calls takes the store's lock for itself, so the   *)
(* lock does not cover the time between them: the model lets the other     *)
(* handlers run there, at the await of update_agent, where the lock is     *)
(* acquired again (acquire suspends the caller when the lock is taken, and *)
(* nothing else in the code keeps the two calls together).                 *)
(* handlers[h].at is "idle", or "checked" when the handler has its keyword *)
(* arguments and update_agent has not run.  No client is connected: the    *)
(* broadcasts reach nobody.                                                *)
(***************************************************************************)

\* the calls served side by side
RaceCalls == {"pause", "resume", "stop", "task_added", "task_completed", "task_failed"}

\* the keyword arguments the handler of `call` passes to update_agent when
\* get_agent gave it `agent`, or Refused
Kwargs(agent, call) ==
    CASE call = "pause" ->
            IF agent.status # "running"
            THEN Refused("Can only pause running agents")
            ELSE [status |-> "paused"]
      [] call = "resume" ->
            IF agent.status # "paused"
            THEN Refused("Can only resume paused agents")
            ELSE [status |-> "running"]
      [] call = "stop" -> [status |-> "stopped", current_task |-> None]
      [] call = "task_added" -> [tasks_pending |-> agent.tasks_pending + 1]
      [] OTHER ->
            [tasks_pending |-> Max(0, agent.tasks_pending - 1),
             tasks_completed |-> agent.tasks_completed + (IF call = "task_completed" THEN 1 ELSE 0),
             tasks_failed |-> agent.tasks_failed + (IF call = "task_completed" THEN 0 ELSE 1),
             current_task |-> None]

\* a handler up to its await of update_agent: get_agent, then the 404 or
\* the `if agent:` that ends it without a write, the precondition that
\* refuses the action, or the keyword arguments
handler_get_agent(h, call, agent_id) ==
    /\ handlers[h].at = "idle"
    /\ tally.started < MaxCalls
    /\ sreq' = StoreRequest("get_agent", agent_id, call)
    /\ UNCHANGED <<_agents, clock, prePause>>
    /\ tally' = [tally EXCEPT !.started = @ + 1]
    /\ IF agent_id \notin DOMAIN _agents
       THEN /\ sresp' = Returned(None)
            /\ UNCHANGED handlers
       ELSE LET kwargs == Kwargs(_agents[agent_id], call) IN
            /\ sresp' = Returned(_agents[agent_id])
            /\ IF "detail" \in DOMAIN kwargs
               THEN UNCHANGED handlers
               ELSE handlers' = [handlers EXCEPT ![h] =
                        [at |-> "checked", call |-> call, kwargs |-> kwargs]]

\* the rest of the handler: update_agent with the keyword arguments computed
\* from the record get_agent gave
handler_update_agent(h, agent_id) ==
    /\ handlers[h].at = "checked"
    /\ sreq' = StoreRequest("update_agent", agent_id, handlers[h].call)
    /\ UNCHANGED clock
    /\ handlers' = [handlers EXCEPT ![h] = [at |-> "idle", call |-> "", kwargs |-> <<>>]]
    /\ IF agent_id \notin DOMAIN _agents
       THEN /\ sresp' = Raised("ValueError")
            /\ UNCHANGED <<_agents, prePause, tally>>
       ELSE /\ _agents' = [_agents EXCEPT ![agent_id] = Updated(@, handlers[h].kwargs, Iso(clock))]
            /\ sresp' = Returned(_agents'[agent_id])
            /\ prePause' = Forget(agent_id)
            /\ tally' = [tally EXCEPT
                   !.added = @ + (IF handlers[h].call = "task_added" THEN 1 ELSE 0),
                   !.completed = @ + (IF handlers[h].call \in {"task_completed", "task_failed"}
                                      THEN 1 ELSE 0)]

RaceOnly ==
    UNCHANGED <<managerVars, workerVars, wsVars, cleanerVars, lifeVars, monitorVars, coordVars, lockVars>>

NextRace ==
    \/ ensure_agent("planner", <<"Planner Agent">>) /\ StoreOnly
    \/ update_agent("planner", [status |-> "running", current_task |-> "Generating response"])
            /\ StoreOnly
    \/ (\E h \in 1..MaxHandlers, call \in RaceCalls : handler_get_agent(h, call, "planner"))
            /\ RaceOnly
    \/ (\E h \in 1..MaxHandlers : handler_update_agent(h, "planner")) /\ RaceOnly

SpecRace == Init /\ [][NextRace]_vars

---------------------------------------------------------------------------
(* The locks of the manager process: AgentStore._lock and                  *)
(* ConnectionManager._lock of src/web/routers/agents.py; the registry of   *)
(* src/web/routers/manager.py has none                                     *)
(*                                                                         *)
(* A coroutine is the sequence of what it does to the locks, to memory     *)
(* and to the network: Acquire and Release of a lock (async with), Mem for *)
(* a statement on a dict or a list, Io for an await of the network, where  *)
(* the task waits until the call of its next step completes.  The model    *)
(* interleaves the tasks operation by operation, which includes every      *)
(* interleaving the event loop produces.                                   *)
(***************************************************************************)

Acquire(lock) == [kind |-> "acquire", arg |-> lock]

Release(lock) == [kind |-> "release", arg |-> lock]

Mem(statement) == [kind |-> "mem", arg |-> statement]

Io(call) == [kind |-> "io", arg |-> call]

\* AgentStore: every method is one block under the store's lock
store_get_agent == <<Acquire("store"), Mem("_agents.get"), Release("store")>>

store_list_agents == <<Acquire("store"), Mem("list(_agents.values())"), Release("store")>>

store_update_agent == <<Acquire("store"), Mem("setattr"), Release("store")>>

store_ensure_agent == <<Acquire("store"), Mem("_agents[agent_id] = AgentState"), Release("store")>>

store_delete_agent == <<Acquire("store"), Mem("del _agents[agent_id]"), Release("store")>>

cm_connect_accept_locked ==
    <<Acquire("cm"), Io("accept"), Mem("active_connections.append"), Release("cm")>>

\* ConnectionManager.connect: accept, then the append under the lock
cm_connect ==
    <<Io("accept"), Acquire("cm"), Mem("active_connections.append"), Release("cm")>>

cm_disconnect == <<Acquire("cm"), Mem("active_connections.remove"), Release("cm")>>

\* _send_to_client, with the disconnect of a send that failed
cm_send_to_client == <<Io("send_json")>> \o cm_disconnect

\* broadcast: the copy under the lock, the tasks created after it
cm_broadcast ==
    <<Acquire("cm"), Mem("active_connections.copy"), Release("cm"), Mem("create_task")>>

cm_send_snapshot == store_list_agents \o <<Io("send_json")>>

\* websocket_endpoint: connect, snapshot, a ping answered, the disconnect
co_websocket_endpoint ==
    cm_connect \o cm_send_snapshot
        \o <<Io("receive_text"), Io("send_json"), Io("receive_text")>> \o cm_disconnect

co_execute_agent_action == store_get_agent \o store_update_agent \o <<Mem("create_task")>>

co_broadcast_task_added == cm_broadcast \o store_get_agent \o store_update_agent

\* the forwarder: the registry is read with no lock, then the proxied call
co_execute_on_agent == <<Mem("REGISTERED_SERVICES.get"), Io("client.post")>>

\* register, unregister, heartbeat, _purge_stale: the dict, with no lock
co_register_service == <<Mem("REGISTERED_SERVICES[agent_id] = entry")>>

\* the coroutines the event loop runs as tasks
Coroutine(name) ==
    CASE name = "websocket_endpoint" -> co_websocket_endpoint
      [] name = "execute_agent_action" -> co_execute_agent_action
      [] name = "broadcast_task_added" -> co_broadcast_task_added
      [] name = "broadcast" -> cm_broadcast
      [] name = "_send_to_client" -> cm_send_to_client
      [] name = "ensure_agent" -> store_ensure_agent
      [] name = "delete_agent" -> store_delete_agent
      [] name = "execute_on_agent" -> co_execute_on_agent
      [] OTHER -> co_register_service

CoroutineNames ==
    {"websocket_endpoint", "execute_agent_action", "broadcast_task_added", "broadcast",
     "_send_to_client", "ensure_agent", "delete_agent", "execute_on_agent",
     "register_service"}

\* the operation task t does next
NextOp(t) == Coroutine(coroutines[t].runs)[coroutines[t].pc]

Running(t) == coroutines[t].pc > 0

\* task t has done its operation: on to the next one, or the end
Advanced(t) ==
    IF coroutines[t].pc = Len(Coroutine(coroutines[t].runs))
    THEN [coroutines EXCEPT ![t] = [runs |-> "", pc |-> 0]]
    ELSE [coroutines EXCEPT ![t].pc = @ + 1]

\* the event loop starts a task for a request, a connection or a create_task
co_start(t, name) ==
    /\ ~Running(t)
    /\ coroutines' = [coroutines EXCEPT ![t] = [runs |-> name, pc |-> 1]]
    /\ UNCHANGED _lock

\* async with self._lock, entered: the task goes on when the lock is free
co_acquire(t) ==
    /\ Running(t)
    /\ NextOp(t).kind = "acquire"
    /\ _lock[NextOp(t).arg] = 0
    /\ _lock' = [_lock EXCEPT ![NextOp(t).arg] = t]
    /\ coroutines' = Advanced(t)

\* async with self._lock, left
co_release(t) ==
    /\ Running(t)
    /\ NextOp(t).kind = "release"
    /\ _lock' = [_lock EXCEPT ![NextOp(t).arg] = 0]
    /\ coroutines' = Advanced(t)

\* a statement on a dict or a list
co_mem(t) ==
    /\ Running(t)
    /\ NextOp(t).kind = "mem"
    /\ coroutines' = Advanced(t)
    /\ UNCHANGED _lock

\* the network call the task waited for completes
co_io(t) ==
    /\ Running(t)
    /\ NextOp(t).kind = "io"
    /\ coroutines' = Advanced(t)
    /\ UNCHANGED _lock

LockOnly ==
    UNCHANGED <<managerVars, workerVars, storeVars, wsVars, cleanerVars,
                lifeVars, monitorVars, coordVars, raceVars>>

NextLock ==
    \/ (\E t \in 1..MaxCoroutines, name \in CoroutineNames : co_start(t, name)) /\ LockOnly
    \/ (\E t \in 1..MaxCoroutines : co_acquire(t)) /\ LockOnly
    \/ (\E t \in 1..MaxCoroutines : co_release(t)) /\ LockOnly
    \/ (\E t \in 1..MaxCoroutines : co_mem(t)) /\ LockOnly
    \/ (\E t \in 1..MaxCoroutines : co_io(t)) /\ LockOnly

SpecLock == Init /\ [][NextLock]_vars

---------------------------------------------------------------------------
(* Claims C31..C40 *)

\* C35: whenever no execute request is in flight on the worker, the
\* lifecycle's current_task is empty, also after an execute whose agent call
\* raised
C35_IdleMeansNoCurrentTask ==
    (process = "running" /\ in_flight = 0) => _lifecycle.current_task = None

\* the graceful shutdown of the worker is over
ShutDown == worker_lifespan.at \in {"returned", "raised"}

\* C34: when the graceful shutdown of a worker started with a manager URL is
\* over, its heartbeat task is cancelled, the lifespan has returned, and the
\* last request the worker posted is the unregister with its id, so that no
\* heartbeat follows the unregister
C34_UnregisterAtShutdown ==
    (ShutDown /\ worker_lifespan.mgr # None) =>
        /\ _heartbeat_task = "cancelled"
        /\ worker_lifespan.at = "returned"
        /\ posted # <<>>
        /\ posted[Len(posted)].op = "unregister"
        /\ posted[Len(posted)].id = "planner"
        /\ \A k \in 1..(Len(posted) - 1) : posted[k].op # "unregister"

\* the registry and what was sent to workers
RegistryTrack == <<REGISTERED_SERVICES, sent, lastWrite>>

\* the store, and the broadcasts and what the subscribers got
DashboardTrack ==
    <<_agents, prePause, messages, btasks, stasks, ready, wire, active_connections>>

\* the step is a dashboard action, answered whatever way
DashboardAction == wsev'.op = "action" /\ <<sreq, sresp, wsev>>' # <<sreq, sresp, wsev>>

\* the step is a request to the registry or the forwarder, or a purge
ManagerRequest ==
    /\ req'.op \in {"register", "heartbeat", "unregister", "purge",
                    "execute", "action", "logs", "status"}
    /\ <<req, resp, sent, REGISTERED_SERVICES>>' # <<req, resp, sent, REGISTERED_SERVICES>>

\* C32: a dashboard action leaves the registry as it is and sends nothing to
\* a worker; a registry request, a purge and a forwarded request leave the
\* store as it is and create no broadcast and no send; and no step changes
\* both tracks
C32_TracksSeparate ==
    [][ /\ DashboardAction => UNCHANGED RegistryTrack
        /\ ManagerRequest => UNCHANGED DashboardTrack
        /\ (UNCHANGED RegistryTrack) \/ (UNCHANGED DashboardTrack) ]_vars

\* the dashboard has stopped an agent that stays registered, and the forwarder
\* has then sent an action to that agent's worker with the record still
\* stopped and no further message
C32_Witness ==
    /\ "planner" \in DOMAIN REGISTERED_SERVICES
    /\ "planner" \in DOMAIN _agents
    /\ _agents["planner"].status = "stopped"
    /\ req.op = "action"
    /\ sent # <<>>
    /\ Len(messages) = 1

\* the step delivers message n to subscriber c
SentOn(c, n) == wsev'.op = "sent" /\ wsev'.ws = c /\ wsev'.arg = n

\* the agent_updated messages on the wire of c
Updates(c) == SelectSeq(wire[c], LAMBDA msg : msg.type = "agent_updated")

\* no broadcast and no send is pending
Quiet == ready = <<>> /\ btasks = {}

\* C38: messages are numbered in the order in which their actions were
\* applied; when message n is delivered to a subscriber, no earlier message
\* is still to be broadcast or to be sent to that subscriber, so each wire
\* holds the agent_updated messages in the order of their actions; and once
\* nothing is pending, the last agent_updated on the wire of a subscriber that
\* is still connected carries the record the store holds
C38_UpdatesInOrder ==
    /\ [][\A c \in Clients, n \in 1..MaxUpdates : SentOn(c, n) =>
              \A m \in 1..(n - 1) : m \notin btasks /\ <<c, m>> \notin stasks]_vars
    /\ [][\A i \in StoreIds : ActionDone(i) =>
              /\ messages' = Append(messages, [type |-> "agent_updated", agent |-> _agents'[i]])
              /\ wsev'.arg = Len(messages) + 1]_vars
    /\ [](\A c \in Clients :
              (Quiet /\ socket[c] = "open" /\ Updates(c) # <<>>) =>
                  LET last == Updates(c)[Len(Updates(c))] IN
                      last.agent = _agents[last.agent.id])

\* two actions sent back to back, a stop and a restart, have both reached a
\* subscriber, the restart's record last
C38_Witness ==
    \E c \in Clients :
        /\ Len(Updates(c)) = 2
        /\ Updates(c)[1].agent.status = "stopped"
        /\ Updates(c)[2].agent.status = "running"
        /\ Quiet
        /\ socket[c] = "open"

\* the snapshot on the wire of c holds the record message n carries, or the
\* record of a later message about the same agent
InSnapshot(c, n) ==
    /\ wire[c] # <<>>
    /\ wire[c][1].type = "snapshot"
    /\ messages[n].agent.id \in DOMAIN wire[c][1].agents
    /\ \E m \in n..Len(messages) :
           /\ messages[m].agent.id = messages[n].agent.id
           /\ wire[c][1].agents[messages[n].agent.id] = messages[m].agent

\* message n is still to be broadcast, or to be sent to c
Coming(c, n) == n \in btasks \/ <<c, n>> \in stasks

\* C37: a client whose endpoint has sent the snapshot and whose connection
\* holds is registered, so that every broadcast that runs creates a send for
\* it; and for every action that succeeded, the record it left is in the
\* client's snapshot, or its agent_updated message is on the client's wire or
\* still coming to it
C37_NoMissedUpdate ==
    /\ [](\A c \in Clients : socket[c] = "open" =>
              /\ c \in Range(active_connections)
              /\ \A n \in DOMAIN messages :
                     InSnapshot(c, n) \/ Delivered(c, n) \/ Coming(c, n))
    /\ [][\A c \in Clients : SnapshotOn(c) =>
              /\ c \in Range(active_connections')
              /\ \A n \in DOMAIN messages : wire'[c][1].agents[messages[n].agent.id] = _agents[messages[n].agent.id]
          ]_vars

\* a client that connected between two actions has the first one's record in
\* its snapshot and the second one's in an agent_updated message
C37_Witness ==
    \E c \in Clients :
        /\ socket[c] = "open"
        /\ Len(messages) = 2
        /\ InSnapshot(c, 1)
        /\ ~Delivered(c, 1)
        /\ wire[c][1].agents["planner"].status = "stopped"
        /\ Delivered(c, 2)
        /\ messages[2].agent.status = "running"

\* the step is a call of resolve_alert
Resolving == mreq'.op = "resolve_alert" /\ <<alerts, mreq>>' # <<alerts, mreq>>

\* C40: an alert that create_alert returned is in get_active_alerts as long
\* as it is not resolved; resolve_alert with its id returns true and takes
\* that alert out of get_active_alerts; resolve_alert with the id of an alert
\* that is resolved already returns false and changes nothing
C40_AlertLifecycle ==
    /\ [](\A k \in DOMAIN alerts : ~alerts[k].resolved => k \in Range(get_active_alerts))
    /\ [][Resolving =>
              \A k \in DOMAIN alerts : alerts[k].id = mreq'.alert_id =>
                  IF alerts[k].resolved
                  THEN mreq'.result = FALSE /\ alerts' = alerts
                  ELSE mreq'.result = TRUE /\ alerts'[k].resolved]_vars

\* the agent calls made for the step in place k of the workflow
CallsOf(k) == {n \in DOMAIN workflow.calls : workflow.calls[n].step = workflow.steps[k].agent_type}

\* the step in place k succeeded: one of its calls returned
Succeeded(k) == \E n \in CallsOf(k) : workflow.calls[n].outcome = "returns"

\* the agent types whose call had returned before call n
CompletedBefore(n) ==
    {workflow.calls[m].step : m \in {i \in 1..(n - 1) : workflow.calls[i].outcome = "returns"}}

\* C39: every step is attempted at most retry_count + 1 times, and only when
\* the steps it depends on have completed; when execute_workflow has
\* returned, the execution is the one new entry of the history and is
\* completed or failed: completed exactly when every step succeeded, and
\* otherwise failed with an error recorded and no call made for a step after
\* the first step that did not succeed
C39_WorkflowTerminal ==
    /\ \A k \in DOMAIN workflow.steps :
           /\ Cardinality(CallsOf(k)) <= Max(workflow.steps[k].retry_count + 1, 0)
           /\ \A n \in CallsOf(k) : workflow.steps[k].depends_on \subseteq CompletedBefore(n)
    /\ workflow.at = "calling" => Len(execution_history) = workflow.runs - 1
    /\ workflow.at = "returned" =>
           /\ Len(execution_history) = workflow.runs
           /\ execution_history[Len(execution_history)] = execution
           /\ execution.state \in {"completed", "failed"}
           /\ execution.state = "completed" <=> \A k \in DOMAIN workflow.steps : Succeeded(k)
           /\ execution.state = "failed" =>
                  /\ DOMAIN execution.errors # {}
                  /\ \E k \in DOMAIN workflow.steps :
                         /\ ~Succeeded(k)
                         /\ \A later \in (k + 1)..Len(workflow.steps) : CallsOf(later) = {}

\* a workflow whose second step failed after a retry, and one whose second
\* step depends on a step that is not there
C39_Witness ==
    /\ workflow.at = "returned"
    /\ execution.state = "failed"
    /\ Len(workflow.steps) = 3
    /\ Succeeded(1)
    /\ Cardinality(CallsOf(2)) = 2
    /\ CallsOf(3) = {}

\* the step is the write of handler h, which serves `call`
Writes(h, call) ==
    handlers[h].at = "checked" /\ handlers[h].call = call /\ handlers'[h].at = "idle"

WaitsOnIo(t) == Running(t) /\ NextOp(t).kind = "io"

\* task t holds one of the locks
Holds(t) == \E lock \in DOMAIN _lock : _lock[lock] = t

\* C31: a task that waits for the network (a proxied call, or accept, send
\* or receive on a WebSocket) holds no lock, and a task that holds a lock is
\* at a statement on a dict or a list, or at the end of the block
C31_NoLockAcrossIo ==
    \A t \in 1..MaxCoroutines :
        /\ WaitsOnIo(t) => ~Holds(t)
        /\ Holds(t) => Running(t) /\ NextOp(t).kind \in {"mem", "release"}

\* one task waits in send_json while another one holds the connection
\* manager's lock
C31_Witness ==
    \E t \in 1..MaxCoroutines, u \in 1..MaxCoroutines :
        /\ WaitsOnIo(t)
        /\ NextOp(t).arg = "send_json"
        /\ _lock.cm = u

====
